---- MODULE Spec2Model ----
(***************************************************************************)
(* dockstep: the execution engine (RunBlock / RunUp / parent resolution),  *)
(* the cache index and the state store, modelled as a state machine.       *)
(*                                                                         *)
(* One action is one caller request (dockstep run, dockstep up, a project  *)
(* edit, a change of the external image).  A request runs synchronously    *)
(* and depth-first, so an action is the whole handler.  The container      *)
(* runtime is nondeterministic: every operation of a request is a function *)
(* from the world before it to the SET of worlds it can leave, one per     *)
(* runtime outcome (pull fails / succeeds, build fails / yields a digest). *)
(* Every runtime call and every store write of a request is appended to a  *)
(* trace, kept in `last`, together with the store as it was before the     *)
(* request.                                                                *)
(*                                                                         *)
(* Strings are TLA+ strings; "" is Go's empty string.  SHA-256 is taken as *)
(* injective: a hash is modelled by the byte string fed to the digest.     *)
(* Local file-system failures (state directory, temp dir) are not          *)
(* modelled: every store call succeeds.                                    *)
(***************************************************************************)
EXTENDS Naturals, Sequences, FiniteSets, TLC

VARIABLES impl, projects, project, state, cache, history, extDigest,
          budget, hashInput, rebuilt, last,
          hA, hB, hPA, hPB, hOut,
          vProject, vErr, vErrReversed,
          procs, logs, writers,
          images, latest, successLogs, captured, persisted,
          exec, isBusy, handlers, response, cfgFile,
          now, tags

vars == <<impl, projects, project, state, cache, history, extDigest,
          budget, hashInput, rebuilt, last,
          hA, hB, hPA, hPB, hOut,
          vProject, vErr, vErrReversed,
          procs, logs, writers,
          images, latest, successLogs, captured, persisted,
          exec, isBusy, handlers, response, cfgFile,
          now, tags>>

hashVars == <<hA, hB, hPA, hPB, hOut>>

validateVars == <<vProject, vErr, vErrReversed>>

\* the inputs and results of the pure functions, which no request touches
pureVars == <<hashVars, validateVars>>

\* the RunBlock invocations in flight at the same time, the latest-attempt
\* log of every block, and who wrote a block's files
concVars == <<procs, logs, writers>>

\* the image digest file of every block, the values last handed to the
\* store's save calls (what a last-writer-wins map would hold), the
\* last-successful log of every block, the output the runtime streamed
\* during the block's most recent build that ended success, and the
\* (hash, digest) pairs that a BlockState with status success has carried
storeVars == <<images, latest, successLogs, captured, persisted>>

\* the threads of one executeBlock call (caller, log follower, container)
execVars == <<exec>>

\* the UI server: its run gate, the HTTP requests it is handling, the
\* response to the last block request and the project file it writes
serverVars == <<isBusy, handlers, response, cfgFile>>

\* the clock in seconds, and the tags buildBlock has generated
tagVars == <<now, tags>>

----------------------------------------------------------------------------
(* Bounds *)

\* steps (requests, project edits, image updates) of one behaviour of Spec
MaxSteps == 5

\* steps of one behaviour of SpecUp
MaxUpSteps == 3

\* steps of one behaviour of SpecExec
MaxExecSteps == 4

\* steps of one behaviour of SpecGraph
MaxGraphSteps == 4

\* requests on the chain of four blocks
MaxChainSteps == 3

\* requests whose log output is followed
MaxLogSteps == 3

\* chunks of output a container writes
MaxChunks == 2

\* seconds the clock advances, and builds whose tags are compared
MaxClock == 2

MaxBuilds == 3

\* requests that may be cut short by a crash
MaxCrashSteps == 3

\* steps of one behaviour of SpecOps
MaxOpsSteps == 3

\* blocks of a project handed to Validate
MaxBlocks == 3

\* requests to /api/block in one behaviour of SpecBlocks
MaxEditSteps == 2

----------------------------------------------------------------------------
(* Data *)

\* the two execution strategies of the repository's engine:
\* "build" submits a generated Dockerfile to the runtime's build operation,
\* "container" creates, starts, waits for and commits a container
Impls == {"build", "container"}

BlockIds == {"A", "B"}

\* digests the runtime can return for a built / committed image
Digests == {"d1", "d2"}

\* digests InspectImage can report for the external image
ExtDigests == {"x1", "x2"}

Block(id, from, fromBlock, version, instrs, ctx, eph, exp) ==
    [ID |-> id, From |-> from, FromBlock |-> fromBlock,
     FromBlockVersion |-> version, Instructions |-> instrs,
     Context |-> ctx, Ephemeral |-> eph, Export |-> exp]

NoBlock == Block("", "", "", "", <<>>, "", FALSE, "")

\* types.Project
Project(version, name, blocks) == [Version |-> version, Name |-> name, Blocks |-> blocks]

NoProject == Project("", "", <<>>)

\* A from an external image, B on top of A
Pair(instrA, ephB) ==
    << Block("A", "img", "", "", <<instrA>>, "", FALSE, ""),
       Block("B", "", "A", "", <<"RUN b">>, "", ephB, "") >>

\* the project before and after an edit of A's instruction
PairProjects == { Pair("RUN 1", FALSE), Pair("RUN 2", FALSE) }

\* the project with B ephemeral or not
EphemeralProjects == { Pair("RUN 1", FALSE), Pair("RUN 1", TRUE) }

\* B pinned to the version v of A
Pinned(v) ==
    << Block("A", "img", "", "", <<"RUN 1">>, "", FALSE, ""),
       Block("B", "", "A", v, <<"RUN b">>, "", FALSE, "") >>

\* a from_block cycle, loaded without validation
Cycle ==
    << Block("A", "", "B", "", <<"RUN 1">>, "", FALSE, ""),
       Block("B", "", "A", "", <<"RUN b">>, "", FALSE, "") >>

\* B's parent block is not in the project
Orphan == << Block("B", "", "A", "", <<"RUN b">>, "", FALSE, "") >>

\* two unrelated blocks, each on the external image
Roots ==
    << Block("A", "img", "", "", <<"RUN 1">>, "", FALSE, ""),
       Block("B", "img", "", "", <<"RUN b">>, "", FALSE, "") >>

\* the dependency graphs the engine can be handed: a chain, a pinned child,
\* a cycle and a missing parent
GraphProjects == { Pair("RUN 1", FALSE), Pinned("d1"), Cycle, Orphan }

\* types.BlockState; Status "absent" stands for "no state file"
BlockState(status, digest, hash, error) ==
    [Status |-> status, Digest |-> digest, Hash |-> hash, Error |-> error]

NoState == BlockState("absent", "", "", "")

\* one entry of the request trace
Ev(ev, id, arg, status, digest, hash) ==
    [ev |-> ev, id |-> id, arg |-> arg, status |-> status, digest |-> digest, hash |-> hash]

\* the store and the trace, threaded through the operations of one request
World(st, ca, hi, tr) == [state |-> st, cache |-> ca, history |-> hi, trace |-> tr]

Log(w, e) == [w EXCEPT !.trace = Append(@, e)]

----------------------------------------------------------------------------
(* Store and cache *)

RECURSIVE Concat(_)
Concat(s) == IF s = <<>> THEN "" ELSE Head(s) \o Concat(Tail(s))

\* mutant: the parent digest is left out of the hash
ComputeBlockHashNoParent(block, parentDigest) ==
    block.ID \o block.From \o block.FromBlock \o block.Context
        \o Concat(block.Instructions)

\* mutant: the pinned version is hashed too
ComputeBlockHashWithVersion(block, parentDigest) ==
    parentDigest \o block.ID \o block.From \o block.FromBlock
        \o block.FromBlockVersion \o block.Context \o Concat(block.Instructions)

ComputeBlockHash(block, parentDigest) ==
    parentDigest \o block.ID \o block.From \o block.FromBlock \o block.Context
        \o Concat(block.Instructions)

\* mutant: every block's state is kept in the same file
StateKeyShared(id) == "A"

\* the file of a block's state: state/<block-id>.json
StateKey(id) == id

SaveBlockState(w, id, st) ==
    Log([w EXCEPT !.state = [@ EXCEPT ![StateKey(id)] = st]],
        Ev("save", id, st.Error, st.Status, st.Digest, st.Hash))

LoadBlockState(w, id) == w.state[StateKey(id)]

\* ClearLogs: the log files of the block are removed
ClearLogs(w, id) == Log(w, Ev("clearlogs", id, "", "", "", ""))

\* mutant: the index is never found (every lookup misses)
GetCachedDigestMiss(w, hash) == [digest |-> "", exists |-> FALSE]

GetCachedDigest(w, hash) ==
    IF hash \in DOMAIN w.cache
    THEN [digest |-> w.cache[hash], exists |-> TRUE]
    ELSE [digest |-> "", exists |-> FALSE]

\* mutant: the index file is rewritten with the new entry alone
SetCachedDigestAlone(w, id, hash, digest) ==
    Log([w EXCEPT !.cache = [h \in {hash} |-> digest]],
        Ev("cacheset", id, "", "", digest, hash))

SetCachedDigest(w, id, hash, digest) ==
    Log([w EXCEPT !.cache = [h \in (DOMAIN @) \cup {hash} |->
                                IF h = hash THEN digest ELSE @[h]]],
        Ev("cacheset", id, "", "", digest, hash))

\* mutant: the history file is truncated instead of appended to
SaveImageHistoryTruncate(w, id, digest, dockerfile) ==
    Log([w EXCEPT !.history = [@ EXCEPT ![id] =
                                <<[Digest |-> digest, Dockerfile |-> dockerfile]>>]],
        Ev("history", id, dockerfile, "", digest, ""))

SaveImageHistory(w, id, digest, dockerfile) ==
    Log([w EXCEPT !.history = [@ EXCEPT ![id] =
                                Append(@, [Digest |-> digest, Dockerfile |-> dockerfile])]],
        Ev("history", id, dockerfile, "", digest, ""))

\* GetCacheStats: the number of entries of the index
GetCacheStats(w) == Cardinality(DOMAIN w.cache)

\* SaveLogs / LoadLogs on the log files lg: logs/<block-id>.log
SaveLogs(lg, id, blob) == [lg EXCEPT ![id] = blob]

LoadLogs(lg, id) == lg[id]

\* SaveImageDigest / LoadImageDigest on the digest files im: images/<block-id>.digest
SaveImageDigest(im, id, digest) == [im EXCEPT ![id] = digest]

LoadImageDigest(im, id) == im[id]

\* mutant: ClearCache leaves the index file in place
ClearCacheKeeps(w) == Log(w, Ev("clearcache", "", "", "", "", ""))

\* ClearCache: the index file is removed
ClearCache(w) == Log([w EXCEPT !.cache = <<>>], Ev("clearcache", "", "", "", "", ""))

\* mutant: Cleanup removes the history file too
CleanupWithHistory(w, blockID, descendants) ==
    Log([w EXCEPT !.state = [b \in DOMAIN @ |->
                               IF b \in {blockID} \cup descendants THEN NoState ELSE @[b]],
                  !.history = [b \in DOMAIN @ |->
                               IF b \in {blockID} \cup descendants THEN <<>> ELSE @[b]]],
        Ev("cleanup", blockID, "", "", "", ""))

\* Cleanup: the state file, the log and the image digest of the block and of
\* its descendants are removed
Cleanup(w, blockID, descendants) ==
    Log([w EXCEPT !.state = [b \in DOMAIN @ |->
                               IF b \in {blockID} \cup descendants THEN NoState ELSE @[b]]],
        Ev("cleanup", blockID, "", "", "", ""))

----------------------------------------------------------------------------
(* Container runtime *)

\* PullImage: the pull is attempted unconditionally and may fail
PullImage(w, ref) ==
    { [w |-> Log(w, Ev("pull", "", ref, "ok", "", "")), err |-> ""],
      [w |-> Log(w, Ev("pull", "", ref, "error", "", "")), err |-> "RuntimeFailure"] }

\* InspectImage: the digest of the image as it is now, or an error
InspectImage(w, ref) ==
    { [w |-> Log(w, Ev("inspect", "", ref, "ok", extDigest, "")),
       digest |-> extDigest, err |-> ""],
      [w |-> Log(w, Ev("inspect", "", ref, "error", "", "")),
       digest |-> "", err |-> "RuntimeFailure"] }

\* BuildImageWithLogs: the build fails, or yields the id of the built image
BuildImageWithLogs(w, id, dockerfile) ==
    { [w |-> Log(w, Ev("build", id, dockerfile, "error", "", "")),
       digest |-> "", err |-> "RuntimeFailure"] }
    \cup
    { [w |-> Log(w, Ev("build", id, dockerfile, "ok", d, "")),
       digest |-> d, err |-> ""] : d \in Digests }

----------------------------------------------------------------------------
(* Engine *)

RECURSIVE FindFrom(_, _, _)
FindFrom(blocks, id, i) ==
    IF i > Len(blocks) THEN NoBlock
    ELSE IF blocks[i].ID = id THEN blocks[i]
    ELSE FindFrom(blocks, id, i + 1)

\* the "for _, b := range e.project.Blocks" lookup: the first block with the id
FindBlock(id) == FindFrom(project, id, 1)

Join2(a, b) == a \o "\n" \o b

RECURSIVE JoinLines(_)
JoinLines(lines) ==
    IF lines = <<>> THEN ""
    ELSE IF Len(lines) = 1 THEN lines[1]
    ELSE Join2(lines[1], JoinLines(Tail(lines)))

generateDockerfile(block, parentImageRef) ==
    JoinLines(<<"FROM " \o parentImageRef, "">> \o block.Instructions)

\* mutant: buildBlock does not append the ImageRecord
buildBlockNoHistory(w, block, parentImageRef) ==
    LET df == generateDockerfile(block, parentImageRef) IN
    { IF b.err # ""
      THEN [w |-> b.w, digest |-> "", exitCode |-> 1, err |-> b.err]
      ELSE [w |-> b.w, digest |-> b.digest, exitCode |-> 0, err |-> ""]
      : b \in BuildImageWithLogs(w, block.ID, df) }

\* buildBlock: (world, digest, err) for every outcome of the runtime build
buildBlock(w, block, parentImageRef) ==
    LET df == generateDockerfile(block, parentImageRef) IN
    { IF b.err # ""
      THEN [w |-> b.w, digest |-> "", exitCode |-> 1, err |-> b.err]
      ELSE [w |-> SaveImageHistory(b.w, block.ID, b.digest, df),
            digest |-> b.digest, exitCode |-> 0, err |-> ""]
      : b \in BuildImageWithLogs(w, block.ID, df) }

\* executeBlock: create / start / wait can fail; the logs are cleared once
\* the container has started; the command exits 0 or not;
\* a non-ephemeral exit 0 is committed, and a failed commit is only a warning
executeBlock(w, block, parentImageRef) ==
    LET created == Log(w, Ev("create", block.ID, parentImageRef, "ok", "", ""))
        started == ClearLogs(Log(created, Ev("start", block.ID, "", "ok", "", "")),
                             block.ID)
        waited(code) == Log(started, Ev("wait", block.ID, "", code, "", ""))
    IN  { [w |-> Log(w, Ev("create", block.ID, parentImageRef, "error", "", "")),
           digest |-> "", exitCode |-> 255, err |-> "RuntimeFailure"],
          [w |-> Log(created, Ev("start", block.ID, "", "error", "", "")),
           digest |-> "", exitCode |-> 255, err |-> "RuntimeFailure"],
          [w |-> waited("error"),
           digest |-> "", exitCode |-> 255, err |-> "RuntimeFailure"],
          [w |-> waited("exit1"),
           digest |-> "", exitCode |-> 1, err |-> ""] }
        \cup
        ( IF block.Ephemeral
          THEN { [w |-> waited("exit0"), digest |-> "", exitCode |-> 0, err |-> ""] }
          ELSE { [w |-> Log(waited("exit0"), Ev("commit", block.ID, "", "error", "", "")),
                  digest |-> "", exitCode |-> 0, err |-> ""] }
               \cup
               { [w |-> SaveImageHistory(
                            Log(waited("exit0"), Ev("commit", block.ID, "", "ok", d, "")),
                            block.ID, d, ""),
                  digest |-> d, exitCode |-> 0, err |-> ""] : d \in Digests } )

\* mutant: the cached state keeps the digest of the previous BlockState
CachedStateKeepsDigest(prev, cachedDigest, hash) ==
    BlockState("cached", prev.Digest, hash, "")

\* the BlockState RunBlock writes on a cache hit
CachedState(prev, cachedDigest, hash) == BlockState("cached", cachedDigest, hash, "")

\* the BlockState RunBlock writes before it starts the build
RunningState(prev, hash) == BlockState("running", "", hash, "")

\* the image reference resolveParentWithVisited returns for an unpinned
\* from_block parent whose BlockState holds digest
ParentRef(parentBlock, digest) ==
    IF impl = "build" /\ parentBlock.From # "" THEN parentBlock.From ELSE digest

\* mutant: the cache is updated after every run
UpdatesCacheAlways(status) == TRUE

\* whether a run that ended with this status updates the cache
UpdatesCache(status) == status = "success"

\* mutant: an aborted RunBlock records the error as a failed BlockState
AbortedSavesFailed(w, blockID, e) ==
    [w |-> Log(SaveBlockState(w, blockID, BlockState("failed", "", "", e)),
               Ev("return", blockID, "", e, "", "")),
     err |-> e]

\* RunBlock returns the error e (block not found, parent not resolved)
\* without writing anything
Aborted(w, blockID, e) ==
    [w |-> Log(w, Ev("return", blockID, "", e, "", "")), err |-> e]

\* mutant: a pinned child is hashed with the parent's latest digest
ResolvedPinnedLatest(w, block, parentBlock) ==
    [w |-> w,
     ref |-> IF parentBlock.From # "" THEN parentBlock.From ELSE block.FromBlockVersion,
     digest |-> LoadBlockState(w, block.FromBlock).Digest, err |-> ""]

\* the result of resolving a child pinned to from_block_version
ResolvedPinned(w, block, parentBlock) ==
    [w |-> w,
     ref |-> IF parentBlock.From # "" THEN parentBlock.From ELSE block.FromBlockVersion,
     digest |-> block.FromBlockVersion, err |-> ""]

\* mutant: force is ignored, the cache is always consulted
SkipsCacheNever(force) == FALSE

\* whether RunBlock skips the cache check
SkipsCache(force) == force

\* mutant: a build that returned an error leaves the state as it was
FinalStateKeepsRunning(running, r) ==
    IF r.err # "" THEN running
    ELSE IF r.exitCode # 0
    THEN [running EXCEPT !.Status = "failed", !.Error = "ExecutionFailed"]
    ELSE [running EXCEPT !.Status = "success", !.Digest = r.digest]

\* the BlockState RunBlock writes after the build returned r
FinalState(running, r) ==
    IF r.err # "" THEN [running EXCEPT !.Status = "failed", !.Error = r.err]
    ELSE IF r.exitCode # 0
    THEN [running EXCEPT !.Status = "failed", !.Error = "ExecutionFailed"]
    ELSE [running EXCEPT !.Status = "success", !.Digest = r.digest]

\* mutant: the parent's state is not checked after its run
StillNoDigestIgnored(st) == FALSE

\* the parent block, run because it had no digest, still has none
StillNoDigest(st) == st.Digest = ""

RECURSIVE RunBlock(_, _, _), resolveParentWithVisited(_, _, _)

resolveParent(w, block) == resolveParentWithVisited(w, block, {})

\* the tail of RunBlock, after the parent was resolved
Execute(w, block, force, parentImageRef, parentDigest) ==
    LET hash == ComputeBlockHash(block, parentDigest)
        hit == GetCachedDigest(w, hash)
        looked == IF SkipsCache(force) THEN w
                  ELSE Log(w, Ev("lookup", block.ID, "",
                                 IF hit.exists THEN "hit" ELSE "miss", hit.digest, hash))
    IN  IF ~SkipsCache(force) /\ hit.exists
        THEN { [w |-> Log(SaveBlockState(looked, block.ID,
                              CachedState(LoadBlockState(w, block.ID), hit.digest, hash)),
                          Ev("return", block.ID, "", "", "", "")),
                err |-> ""] }
        ELSE LET running == RunningState(LoadBlockState(w, block.ID), hash)
                 saved == SaveBlockState(looked, block.ID, running)
                 w1 == IF impl = "build" THEN ClearLogs(saved, block.ID) ELSE saved
                 results == IF impl = "build"
                            THEN buildBlock(w1, block, parentImageRef)
                            ELSE executeBlock(w1, block, parentImageRef)
             IN  { LET final == FinalState(running, r)
                       w2 == SaveBlockState(r.w, block.ID, final)
                       w3 == IF UpdatesCache(final.Status)
                             THEN SetCachedDigest(w2, block.ID, hash, r.digest)
                             ELSE w2
                   IN  [w |-> Log(w3, Ev("return", block.ID, "", "", "", "")), err |-> ""]
                   : r \in results }

RunBlock(w, blockID, force) ==
    LET block == FindBlock(blockID)
        w0 == Log(w, Ev("run", blockID, "", IF force THEN "force" ELSE "", "", ""))
    IN  IF block = NoBlock
        THEN { Aborted(w0, blockID, "NotFound") }
        ELSE UNION {
               IF p.err # ""
               THEN { Aborted(p.w, blockID, p.err) }
               ELSE Execute(Log(p.w, Ev("resolved", blockID, p.ref, "", p.digest, "")),
                            block, force, p.ref, p.digest)
               : p \in resolveParent(w0, block) }

ResolveErr(w, e) == [w |-> w, ref |-> "", digest |-> "", err |-> e]

\* the end of the from_block branch: the parent's BlockState st holds a digest
ResolvedFromBlock(w, block, st) ==
    IF impl = "container"
    THEN [w |-> w, ref |-> st.Digest, digest |-> st.Digest, err |-> ""]
    ELSE LET parentBlock == FindBlock(block.FromBlock) IN
         IF parentBlock = NoBlock
         THEN ResolveErr(w, "NotFound")
         ELSE [w |-> w, ref |-> ParentRef(parentBlock, st.Digest),
               digest |-> st.Digest, err |-> ""]

resolveParentWithVisited(w, block, visited) ==
    IF block.From # ""
    THEN UNION {
           IF q.err # "" THEN { ResolveErr(q.w, q.err) }
           ELSE { IF i.err # "" THEN ResolveErr(i.w, i.err)
                  ELSE [w |-> i.w, ref |-> block.From, digest |-> i.digest, err |-> ""]
                  : i \in InspectImage(q.w, block.From) }
           : q \in PullImage(w, block.From) }
    ELSE IF block.FromBlock # ""
    THEN IF block.ID \in visited
         THEN { ResolveErr(w, "CircularDependency") }
         ELSE IF impl = "build" /\ block.FromBlockVersion # ""
         THEN LET parentBlock == FindBlock(block.FromBlock) IN
              IF parentBlock = NoBlock THEN { ResolveErr(w, "NotFound") }
              ELSE { ResolvedPinned(w, block, parentBlock) }
         ELSE LET st == LoadBlockState(w, block.FromBlock) IN
              IF st.Digest # ""
              THEN { ResolvedFromBlock(w, block, st) }
              ELSE LET parentBlock == FindBlock(block.FromBlock) IN
                   IF parentBlock = NoBlock THEN { ResolveErr(w, "NotFound") }
                   ELSE UNION {
                          IF p.err # "" THEN { ResolveErr(p.w, p.err) }
                          ELSE { IF r.err # "" THEN ResolveErr(r.w, r.err)
                                 ELSE LET st2 == LoadBlockState(r.w, block.FromBlock) IN
                                      IF st2.Status = "absent"
                                      THEN ResolveErr(r.w, "StoreFailure")
                                      ELSE IF StillNoDigest(st2)
                                      THEN ResolveErr(r.w, "ParentUnresolved")
                                      ELSE ResolvedFromBlock(r.w, block, st2)
                                 : r \in RunBlock(p.w, block.FromBlock, FALSE) }
                          : p \in resolveParentWithVisited(w, parentBlock,
                                                           visited \cup {block.ID}) }
    ELSE { ResolveErr(w, "NoParent") }

\* the index RunUp starts at: the first block named fromBlock, else the first block
RECURSIVE IndexFrom(_, _)
IndexFrom(fromBlock, i) ==
    IF i > Len(project) THEN 1
    ELSE IF project[i].ID = fromBlock THEN i
    ELSE IndexFrom(fromBlock, i + 1)

\* mutant: RunUp always starts at the first block
StartIndexFirst(fromBlock) == 1

StartIndex(fromBlock) == IF fromBlock = "" THEN 1 ELSE IndexFrom(fromBlock, 1)

\* whether RunUp stops after a RunBlock that returned err
StopsOn(err, continueOnError) == err # "" /\ ~continueOnError

RECURSIVE RunUpFrom(_, _, _, _)
RunUpFrom(w, i, force, continueOnError) ==
    IF i > Len(project) THEN { [w |-> w, err |-> ""] }
    ELSE UNION {
           IF StopsOn(r.err, continueOnError)
           THEN { [w |-> r.w, err |-> r.err] }
           ELSE RunUpFrom(r.w, i + 1, force, continueOnError)
           : r \in RunBlock(Log(w, Ev("up", project[i].ID, "", "", "", "")),
                             project[i].ID, force) }

RunUp(w, force, fromBlock, continueOnError) ==
    RunUpFrom(w, StartIndex(fromBlock), force, continueOnError)

----------------------------------------------------------------------------
(* Configuration validation *)

\* mutant: a block without instructions is accepted
validateBlockAnyInstructions(block, allBlockIDs) ==
    IF block.From = "" /\ block.FromBlock = "" THEN "NoParent"
    ELSE IF block.From # "" /\ block.FromBlock # "" THEN "BothParents"
    ELSE IF block.FromBlock # "" /\ block.FromBlock \notin allBlockIDs
    THEN "UnknownFromBlock"
    ELSE ""

\* validateBlock: allBlockIDs holds the ids of the blocks declared so far,
\* the block itself included
validateBlock(block, allBlockIDs) ==
    IF block.From = "" /\ block.FromBlock = "" THEN "NoParent"
    ELSE IF block.From # "" /\ block.FromBlock # "" THEN "BothParents"
    ELSE IF block.FromBlock # "" /\ block.FromBlock \notin allBlockIDs
    THEN "UnknownFromBlock"
    ELSE IF Len(block.Instructions) = 0 THEN "EmptyInstructions"
    ELSE ""

\* the loop of Validate over the blocks, from block i on
RECURSIVE ValidateBlocks(_, _, _)
ValidateBlocks(blocks, i, blockIDs) ==
    IF i > Len(blocks) THEN ""
    ELSE IF blocks[i].ID = "" THEN "EmptyBlockID"
    ELSE IF blocks[i].ID \in blockIDs THEN "DuplicateBlockID"
    ELSE LET err == validateBlock(blocks[i], blockIDs \cup {blocks[i].ID}) IN
         IF err # "" THEN err
         ELSE ValidateBlocks(blocks, i + 1, blockIDs \cup {blocks[i].ID})

\* the map blockID -> parentBlockID (a later block overwrites an earlier one)
RECURSIVE BuildDeps(_, _, _)
BuildDeps(blocks, i, deps) ==
    IF i > Len(blocks) THEN deps
    ELSE IF blocks[i].FromBlock = "" THEN BuildDeps(blocks, i + 1, deps)
    ELSE BuildDeps(blocks, i + 1,
                   [x \in (DOMAIN deps) \cup {blocks[i].ID} |->
                       IF x = blocks[i].ID THEN blocks[i].FromBlock ELSE deps[x]])

\* hasCycle: the depth-first search, with the two maps it updates
RECURSIVE hasCycle(_, _, _, _)
hasCycle(blockID, deps, visited, recStack) ==
    LET v1 == visited \cup {blockID}
        r1 == recStack \cup {blockID}
        done(v, r) == [cycle |-> FALSE, visited |-> v, recStack |-> r \ {blockID}]
    IN  IF blockID \in DOMAIN deps
        THEN LET parent == deps[blockID] IN
             IF parent \notin v1
             THEN LET sub == hasCycle(parent, deps, v1, r1) IN
                  IF sub.cycle THEN sub ELSE done(sub.visited, sub.recStack)
             ELSE IF parent \in r1
             THEN [cycle |-> TRUE, visited |-> v1, recStack |-> r1]
             ELSE done(v1, r1)
        ELSE done(v1, r1)

\* the "for blockID := range deps" loop: Go iterates a map in an unspecified
\* order, so the result is the set of results over every order of the keys
RECURSIVE CheckKeys(_, _, _, _)
CheckKeys(keys, deps, visited, recStack) ==
    IF keys = {} THEN { "" }
    ELSE UNION {
           IF k \in visited THEN CheckKeys(keys \ {k}, deps, visited, recStack)
           ELSE LET r == hasCycle(k, deps, visited, recStack) IN
                IF r.cycle THEN { "CircularDependency" }
                ELSE CheckKeys(keys \ {k}, deps, r.visited, r.recStack)
           : k \in keys }

checkCircularDependencies(blocks) ==
    LET deps == BuildDeps(blocks, 1, <<>>) IN CheckKeys(DOMAIN deps, deps, {}, {})

\* Validate: the set of errors it can return ("" is nil)
Validate(p) ==
    IF p.Version = "" THEN { "VersionRequired" }
    ELSE IF p.Name = "" THEN { "NameRequired" }
    ELSE IF Len(p.Blocks) > 0
    THEN LET err == ValidateBlocks(p.Blocks, 1, {}) IN
         IF err # "" THEN { err } ELSE checkCircularDependencies(p.Blocks)
    ELSE { "" }

----------------------------------------------------------------------------
(* The state machine *)

NoInput == [parent |-> "", block |-> NoBlock]

NoRequest ==
    [op |-> "none", id |-> "", force |-> FALSE, err |-> "", trace |-> <<>>,
     prev |-> [op |-> "none", id |-> ""],
     preState |-> [b \in BlockIds |-> NoState], preCache |-> <<>>,
     preHistory |-> [b \in BlockIds |-> <<>>],
     preInput |-> [b \in BlockIds |-> NoInput],
     preRebuilt |-> [b \in BlockIds |-> FALSE]]

\* no executeBlock call is in progress
NoExec == [pc |-> "none"]

\* the HTTP requests of the UI server
Reqs == {"r1", "r2", "r3"}

\* a request the server has not received yet
NoHandler == [pc |-> "none", kind |-> "", body |-> "", code |-> 0, ran |-> FALSE]

\* the UI server handles no request
NoServer ==
    /\ isBusy = FALSE
    /\ handlers = [r \in Reqs |-> NoHandler]
    /\ response = [code |-> 0]
    /\ cfgFile = <<>>

\* no build of the block has ended success yet
NoBuild == <<"none">>

\* nothing was saved yet: no file exists
NoSaves ==
    /\ images = [b \in BlockIds |-> ""]
    /\ latest = [cache |-> <<>>, state |-> [b \in BlockIds |-> NoState],
              logs |-> [b \in BlockIds |-> <<>>], images |-> [b \in BlockIds |-> ""]]
    /\ successLogs = [b \in BlockIds |-> <<>>]
    /\ captured = [b \in BlockIds |-> NoBuild]
    /\ persisted = {}
    /\ exec = NoExec
    /\ NoServer
    /\ now = 0
    /\ tags = <<>>

\* the concurrent invocations of RunBlock (two dockstep processes on one
\* project directory)
Procs == {"p1", "p2"}

\* the local variables of one RunBlock invocation
Proc(pc, id, force) ==
    [pc |-> pc, id |-> id, force |-> force, hash |-> "", digest |-> "",
     err |-> "", final |-> NoState, wrote |-> NoState, entries |-> <<>>]

\* no invocation is in flight
NoProcs ==
    /\ procs = [p \in Procs |-> Proc("done", "", FALSE)]
    /\ logs = [b \in BlockIds |-> <<>>]
    /\ writers = [b \in BlockIds |-> {}]

InitWith(im, p0, ps, n) ==
    /\ impl = im
    /\ projects = ps
    /\ project = p0
    /\ state = [b \in BlockIds |-> NoState]
    /\ cache = <<>>
    /\ history = [b \in BlockIds |-> <<>>]
    /\ extDigest = "x1"
    /\ budget = n
    /\ hashInput = [b \in BlockIds |-> NoInput]
    /\ rebuilt = [b \in BlockIds |-> FALSE]
    /\ last = NoRequest
    /\ hA = NoBlock /\ hB = NoBlock /\ hPA = "" /\ hPB = "" /\ hOut = <<>>
    /\ vProject = NoProject /\ vErr = "unset" /\ vErrReversed = "unset"
    /\ NoProcs
    /\ NoSaves

\* the inputs of ComputeBlockHash: blocks that pass validation (one parent
\* kind, at least one instruction), among them pairs that differ only in where
\* a boundary between two fields or two instructions falls
HashBlockSet ==
    { Block(id, par[1], par[2], ver, ins, ctx, FALSE, exp) :
        id \in {"a", "ab"}, par \in {<<"b", "">>, <<"", "b">>},
        ver \in {"", "v"}, ins \in {<<"x">>, <<"cx">>, <<"xy">>, <<"x", "y">>},
        ctx \in {"", "c"}, exp \in {"", "e"} }

HashDigestSet == {"d", "da"}

InitHash ==
    /\ impl = "build"
    /\ projects = PairProjects
    /\ project = Pair("RUN 1", FALSE)
    /\ state = [b \in BlockIds |-> NoState]
    /\ cache = <<>>
    /\ history = [b \in BlockIds |-> <<>>]
    /\ extDigest = "x1"
    /\ budget = 0
    /\ hashInput = [b \in BlockIds |-> NoInput]
    /\ rebuilt = [b \in BlockIds |-> FALSE]
    /\ last = NoRequest
    /\ hA \in HashBlockSet /\ hB \in HashBlockSet
    /\ hPA \in HashDigestSet /\ hPB \in HashDigestSet
    /\ hOut = <<>>
    /\ vProject = NoProject /\ vErr = "unset" /\ vErrReversed = "unset"
    /\ NoProcs
    /\ NoSaves

Init == InitWith("build", Pair("RUN 1", FALSE), PairProjects, MaxSteps)

InitUp == InitWith("build", Pair("RUN 1", FALSE), PairProjects, MaxUpSteps)

InitExec ==
    \E im \in Impls :
        InitWith(im, Pair("RUN 1", FALSE), EphemeralProjects, MaxExecSteps)

\* two invocations of RunBlock start at the same time, on an empty store or
\* on one in which A was built before
InitConc ==
    /\ impl = "build"
    /\ projects = {Roots}
    /\ project = Roots
    /\ extDigest = "x1"
    /\ \E built \in BOOLEAN :
         LET hashA == ComputeBlockHash(Roots[1], "x1") IN
         /\ state = [b \in BlockIds |->
                        IF built /\ b = "A" THEN BlockState("success", "d1", hashA, "")
                        ELSE NoState]
         /\ cache = IF built THEN [h \in {hashA} |-> "d1"] ELSE <<>>
         /\ history = [b \in BlockIds |->
                          IF built /\ b = "A"
                          THEN <<[Digest |-> "d1",
                                  Dockerfile |-> generateDockerfile(Roots[1], "img")]>>
                          ELSE <<>>]
    /\ budget = 0
    /\ hashInput = [b \in BlockIds |-> NoInput]
    /\ rebuilt = [b \in BlockIds |-> FALSE]
    /\ last = NoRequest
    /\ hA = NoBlock /\ hB = NoBlock /\ hPA = "" /\ hPB = "" /\ hOut = <<>>
    /\ vProject = NoProject /\ vErr = "unset" /\ vErrReversed = "unset"
    /\ procs \in [Procs -> { Proc("resolve", id, force) :
                                id \in BlockIds, force \in BOOLEAN }]
    /\ logs = [b \in BlockIds |-> <<>>]
    /\ writers = [b \in BlockIds |-> {}]
    /\ NoSaves

\* the blocks of the projects handed to Validate: each parent declaration,
\* well-formed or not
ValidateBlockSet ==
    { Block(id, par[1], par[2], "", <<"RUN x">>, "", FALSE, "") :
        id \in BlockIds,
        par \in {<<"img", "">>, <<"", "A">>, <<"", "B">>, <<"", "">>, <<"img", "A">>} }
    \cup { Block(id, "img", "", "", <<>>, "", FALSE, "") : id \in BlockIds }
    \cup { Block("", "img", "", "", <<"RUN x">>, "", FALSE, "") }

ValidateProjectSet ==
    { Project(h[1], h[2], blocks) :
        h \in {<<"1.0", "test">>, <<"", "test">>, <<"1.0", "">>},
        blocks \in UNION { [1..n -> ValidateBlockSet] : n \in 0..MaxBlocks } }

InitValidate ==
    /\ impl = "build"
    /\ projects = PairProjects
    /\ project = Pair("RUN 1", FALSE)
    /\ state = [b \in BlockIds |-> NoState]
    /\ cache = <<>>
    /\ history = [b \in BlockIds |-> <<>>]
    /\ extDigest = "x1"
    /\ budget = 0
    /\ hashInput = [b \in BlockIds |-> NoInput]
    /\ rebuilt = [b \in BlockIds |-> FALSE]
    /\ last = NoRequest
    /\ hA = NoBlock /\ hB = NoBlock /\ hPA = "" /\ hPB = "" /\ hOut = <<>>
    /\ vProject \in ValidateProjectSet
    /\ vErr = "unset" /\ vErrReversed = "unset"
    /\ NoProcs
    /\ NoSaves

InitGraph ==
    \E p0 \in GraphProjects : InitWith("build", p0, GraphProjects, MaxGraphSteps)

Here == World(state, cache, history, <<>>)

\* the positions of the trace tr that hold an event of kind ev
Events2(tr, ev) == { i \in DOMAIN tr : tr[i].ev = ev }

\* the positions of the trace tr that hold an event ev of block b
At(tr, ev, b) == { i \in DOMAIN tr : tr[i].ev = ev /\ tr[i].id = b }

Max(S) == CHOOSE x \in S : \A y \in S : y <= x

\* history variable: the parent digest and the definition from which the hash
\* in b's BlockState was computed
HashInputAfter(tr) ==
    [b \in BlockIds |->
        IF At(tr, "resolved", b) = {} THEN hashInput[b]
        ELSE [parent |-> tr[Max(At(tr, "resolved", b))].digest, block |-> FindBlock(b)]]

\* history variable: since b's BlockState was last written, a request has
\* replaced the digest in the BlockState of b's parent block by another digest
RebuiltAfter(w) ==
    [b \in BlockIds |->
        IF At(w.trace, "save", b) # {} THEN FALSE
        ELSE LET p == FindBlock(b).FromBlock IN
             \/ rebuilt[b]
             \/ /\ p \in BlockIds
                /\ state[p].Digest # ""
                /\ w.state[p].Digest # ""
                /\ w.state[p].Digest # state[p].Digest]

Commit(op, id, force, r) ==
    /\ state' = r.w.state
    /\ cache' = r.w.cache
    /\ history' = r.w.history
    /\ hashInput' = HashInputAfter(r.w.trace)
    /\ rebuilt' = RebuiltAfter(r.w)
    /\ last' = [op |-> op, id |-> id, force |-> force, err |-> r.err,
                trace |-> r.w.trace, prev |-> [op |-> last.op, id |-> last.id],
                preState |-> state, preCache |-> cache,
                preHistory |-> history, preInput |-> hashInput,
                preRebuilt |-> rebuilt]
    /\ budget' = budget - 1
    /\ UNCHANGED <<impl, projects, project, extDigest>>
    /\ UNCHANGED pureVars
    /\ UNCHANGED concVars
    /\ UNCHANGED storeVars
    /\ UNCHANGED execVars
    /\ UNCHANGED serverVars
    /\ UNCHANGED tagVars

\* dockstep run <id> [--force]
RunRequest ==
    /\ budget > 0
    /\ \E id \in BlockIds, force \in BOOLEAN :
         \E r \in RunBlock(Here, id, force) : Commit("RunBlock", id, force, r)

\* dockstep up [--force] [--from <id>] [--continue-on-error]
UpRequest ==
    /\ budget > 0
    /\ \E force \in BOOLEAN, fromBlock \in {"", "B"}, coe \in BOOLEAN :
         \E r \in RunUp(Here, force, fromBlock, coe) :
            Commit(IF coe THEN "RunUpContinue" ELSE "RunUp", fromBlock, force, r)

\* the editor replaces the project definition
SetProject ==
    /\ budget > 0
    /\ \E p \in projects \ {project} : project' = p
    /\ budget' = budget - 1
    /\ last' = NoRequest
    /\ UNCHANGED <<impl, projects, state, cache, history, extDigest,
                   hashInput, rebuilt>>
    /\ UNCHANGED pureVars
    /\ UNCHANGED concVars
    /\ UNCHANGED storeVars
    /\ UNCHANGED execVars
    /\ UNCHANGED serverVars
    /\ UNCHANGED tagVars

\* the external base image is republished under the same reference
ImageUpdate ==
    /\ budget > 0
    /\ budget' = budget - 1
    /\ \E d \in ExtDigests \ {extDigest} : extDigest' = d
    /\ last' = NoRequest
    /\ UNCHANGED <<impl, projects, project, state, cache, history,
                   hashInput, rebuilt>>
    /\ UNCHANGED pureVars
    /\ UNCHANGED concVars
    /\ UNCHANGED storeVars
    /\ UNCHANGED execVars
    /\ UNCHANGED serverVars
    /\ UNCHANGED tagVars

\* the store's maintenance operations leave the history variables and the
\* record of the last request alone
StoreOp(w) ==
    /\ budget > 0
    /\ budget' = budget - 1
    /\ state' = w.state
    /\ cache' = w.cache
    /\ history' = w.history
    /\ last' = [NoRequest EXCEPT !.op = w.trace[1].ev,
                                 !.preState = state, !.preCache = cache,
                                 !.preHistory = history]
    /\ UNCHANGED <<impl, projects, project, extDigest, hashInput, rebuilt>>
    /\ UNCHANGED pureVars
    /\ UNCHANGED concVars
    /\ UNCHANGED storeVars
    /\ UNCHANGED execVars
    /\ UNCHANGED serverVars
    /\ UNCHANGED tagVars

\* Cache.ClearCache
ClearCacheRequest == StoreOp(ClearCache(Here))

\* Store.Cleanup of a block and any set of other blocks as its descendants
CleanupRequest ==
    \E id \in BlockIds, descendants \in SUBSET BlockIds :
        id \notin descendants /\ StoreOp(Cleanup(Here, id, descendants))

\* ComputeBlockHash applied to two drawn inputs
HashBlocks ==
    /\ hOut = <<>>
    /\ hOut' = <<ComputeBlockHash(hA, hPA), ComputeBlockHash(hB, hPB)>>
    /\ UNCHANGED <<impl, projects, project, state, cache, history, extDigest,
                   budget, hashInput, rebuilt, last, hA, hB, hPA, hPB>>
    /\ UNCHANGED validateVars
    /\ UNCHANGED concVars
    /\ UNCHANGED storeVars
    /\ UNCHANGED execVars
    /\ UNCHANGED serverVars
    /\ UNCHANGED tagVars

\* One store or runtime operation of the invocation p of RunBlock.  The
\* operations of the two invocations interleave freely: the engine and the
\* store take no lock.
Step(p, new) == procs' = [procs EXCEPT ![p] = new]

ConcFrame ==
    /\ UNCHANGED <<impl, projects, project, extDigest, budget, hashInput,
                   rebuilt, last>>
    /\ UNCHANGED pureVars
    /\ UNCHANGED storeVars
    /\ UNCHANGED execVars
    /\ UNCHANGED serverVars
    /\ UNCHANGED tagVars

Wrote(p, b) == [writers EXCEPT ![b] = @ \cup {p}]

\* resolveParent of a block with from: pull and inspect, then the hash
CResolve(p) ==
    /\ procs[p].pc = "resolve"
    /\ \E q \in PullImage(Here, FindBlock(procs[p].id).From) :
         IF q.err # ""
         THEN Step(p, [procs[p] EXCEPT !.pc = "done", !.err = q.err])
         ELSE \E i \in InspectImage(q.w, FindBlock(procs[p].id).From) :
                IF i.err # ""
                THEN Step(p, [procs[p] EXCEPT !.pc = "done", !.err = i.err])
                ELSE Step(p, [procs[p] EXCEPT
                                !.pc = "lookup",
                                !.hash = ComputeBlockHash(FindBlock(procs[p].id), i.digest)])
    /\ UNCHANGED <<state, cache, history, logs, writers>>
    /\ ConcFrame

\* the cache check
CLookup(p) ==
    /\ procs[p].pc = "lookup"
    /\ LET hit == GetCachedDigest(Here, procs[p].hash) IN
       IF ~SkipsCache(procs[p].force) /\ hit.exists
       THEN Step(p, [procs[p] EXCEPT !.pc = "savecached", !.digest = hit.digest])
       ELSE Step(p, [procs[p] EXCEPT !.pc = "saverunning"])
    /\ UNCHANGED <<state, cache, history, logs, writers>>
    /\ ConcFrame

\* SaveBlockState of the cached state
CSaveCached(p) ==
    /\ procs[p].pc = "savecached"
    /\ LET st == CachedState(LoadBlockState(Here, procs[p].id),
                             procs[p].digest, procs[p].hash)
       IN  /\ state' = SaveBlockState(Here, procs[p].id, st).state
           /\ Step(p, [procs[p] EXCEPT !.pc = "done", !.wrote = st])
    /\ writers' = Wrote(p, StateKey(procs[p].id))
    /\ UNCHANGED <<cache, history, logs>>
    /\ ConcFrame

\* SaveBlockState of the running state
CSaveRunning(p) ==
    /\ procs[p].pc = "saverunning"
    /\ LET st == RunningState(LoadBlockState(Here, procs[p].id), procs[p].hash)
       IN  /\ state' = SaveBlockState(Here, procs[p].id, st).state
           /\ Step(p, [procs[p] EXCEPT !.pc = "clearlogs", !.wrote = st, !.final = st])
    /\ writers' = Wrote(p, StateKey(procs[p].id))
    /\ UNCHANGED <<cache, history, logs>>
    /\ ConcFrame

CClearLogs(p) ==
    /\ procs[p].pc = "clearlogs"
    /\ logs' = [logs EXCEPT ![procs[p].id] = <<>>]
    /\ writers' = Wrote(p, procs[p].id)
    /\ Step(p, [procs[p] EXCEPT !.pc = "build"])
    /\ UNCHANGED <<state, cache, history>>
    /\ ConcFrame

\* the runtime build, which appends its output to the block's log
CBuild(p) ==
    /\ procs[p].pc = "build"
    /\ logs' = [logs EXCEPT ![procs[p].id] = Append(@, p)]
    /\ writers' = Wrote(p, procs[p].id)
    /\ \E b \in BuildImageWithLogs(Here, procs[p].id,
                      generateDockerfile(FindBlock(procs[p].id),
                                         FindBlock(procs[p].id).From)) :
         IF b.err # ""
         THEN Step(p, [procs[p] EXCEPT
                         !.pc = "savefinal",
                         !.final = [@ EXCEPT !.Status = "failed", !.Error = b.err]])
         ELSE Step(p, [procs[p] EXCEPT
                         !.pc = "history", !.digest = b.digest,
                         !.final = [@ EXCEPT !.Status = "success", !.Digest = b.digest]])
    /\ UNCHANGED <<state, cache, history>>
    /\ ConcFrame

\* SaveImageHistory at the end of buildBlock
CHistory(p) ==
    /\ procs[p].pc = "history"
    /\ history' = SaveImageHistory(Here, procs[p].id, procs[p].digest,
                       generateDockerfile(FindBlock(procs[p].id),
                                          FindBlock(procs[p].id).From)).history
    /\ writers' = Wrote(p, procs[p].id)
    /\ Step(p, [procs[p] EXCEPT !.pc = "savefinal"])
    /\ UNCHANGED <<state, cache, logs>>
    /\ ConcFrame

\* SaveBlockState of the final state
CSaveFinal(p) ==
    /\ procs[p].pc = "savefinal"
    /\ state' = SaveBlockState(Here, procs[p].id, procs[p].final).state
    /\ writers' = Wrote(p, StateKey(procs[p].id))
    /\ Step(p, [procs[p] EXCEPT
                   !.pc = IF UpdatesCache(procs[p].final.Status)
                          THEN "cacheload" ELSE "done",
                   !.wrote = procs[p].final])
    /\ UNCHANGED <<cache, history, logs>>
    /\ ConcFrame

\* SetCachedDigest, first half: loadCache
CCacheLoad(p) ==
    /\ procs[p].pc = "cacheload"
    /\ Step(p, [procs[p] EXCEPT !.pc = "cachesave", !.entries = cache])
    /\ UNCHANGED <<state, cache, history, logs, writers>>
    /\ ConcFrame

\* SetCachedDigest, second half: saveCache of the loaded entries plus its own
CCacheSave(p) ==
    /\ procs[p].pc = "cachesave"
    /\ cache' = SetCachedDigest(World(state, procs[p].entries, history, <<>>),
                                procs[p].id, procs[p].hash, procs[p].digest).cache
    /\ Step(p, [procs[p] EXCEPT !.pc = "done"])
    /\ UNCHANGED <<state, history, logs, writers>>
    /\ ConcFrame

\* the same project with its blocks declared in the opposite order
Reversed(p) ==
    [p EXCEPT !.Blocks = [i \in DOMAIN p.Blocks |-> p.Blocks[Len(p.Blocks) + 1 - i]]]

\* config.Validate applied to the drawn project, and to the same blocks
\* declared in the opposite order
ValidateProject ==
    /\ vErr = "unset"
    /\ vErr' \in Validate(vProject)
    /\ vErrReversed' \in Validate(Reversed(vProject))
    /\ UNCHANGED <<impl, projects, project, state, cache, history, extDigest,
                   budget, hashInput, rebuilt, last, vProject>>
    /\ UNCHANGED hashVars
    /\ UNCHANGED concVars
    /\ UNCHANGED storeVars
    /\ UNCHANGED execVars
    /\ UNCHANGED serverVars
    /\ UNCHANGED tagVars

Next == RunRequest \/ SetProject \/ ImageUpdate

Spec == Init /\ [][Next]_vars

NextUp == RunRequest \/ UpRequest \/ SetProject \/ ImageUpdate

SpecUp == InitUp /\ [][NextUp]_vars

NextHash == HashBlocks

\* ComputeBlockHash on every pair of drawn inputs
SpecHash == InitHash /\ [][NextHash]_vars

\* both execution strategies, with and without an ephemeral block
SpecExec == InitExec /\ [][Next]_vars

NextValidate == ValidateProject

\* Validate on every drawn project
SpecValidate == InitValidate /\ [][NextValidate]_vars

\* the keys and values handed to the store's calls
StoreHashes == {"h1", "h2"}

StoreStates == { BlockState("success", "d1", "h1", ""), BlockState("failed", "", "h2", "e") }

StoreBlobs == {"l1", "l2"}

InitStore ==
    /\ InitWith("build", Pair("RUN 1", FALSE), PairProjects, 0)

StoreFrame ==
    /\ UNCHANGED <<impl, projects, project, extDigest, budget, hashInput,
                   rebuilt, last, history>>
    /\ UNCHANGED pureVars
    /\ UNCHANGED <<procs, writers, successLogs, captured, persisted>>
    /\ UNCHANGED execVars
    /\ UNCHANGED serverVars
    /\ UNCHANGED tagVars

\* Set(h, d)
ApiSet ==
    /\ \E h \in StoreHashes, d \in Digests :
         /\ cache' = SetCachedDigest(Here, "", h, d).cache
         /\ latest' = [latest EXCEPT !.cache = [x \in (DOMAIN @) \cup {h} |->
                                            IF x = h THEN d ELSE @[x]]]
    /\ UNCHANGED <<state, logs, images>>
    /\ StoreFrame

\* Clear()
ApiClear ==
    /\ cache' = ClearCache(Here).cache
    /\ latest' = [latest EXCEPT !.cache = <<>>]
    /\ UNCHANGED <<state, logs, images>>
    /\ StoreFrame

ApiSaveBlockState ==
    /\ \E id \in BlockIds, st \in StoreStates :
         /\ state' = SaveBlockState(Here, id, st).state
         /\ latest' = [latest EXCEPT !.state[id] = st]
    /\ UNCHANGED <<cache, logs, images>>
    /\ StoreFrame

ApiSaveLogs ==
    /\ \E id \in BlockIds, blob \in StoreBlobs :
         /\ logs' = SaveLogs(logs, id, blob)
         /\ latest' = [latest EXCEPT !.logs[id] = blob]
    /\ UNCHANGED <<cache, state, images>>
    /\ StoreFrame

ApiSaveImageDigest ==
    /\ \E id \in BlockIds, d \in Digests :
         /\ images' = SaveImageDigest(images, id, d)
         /\ latest' = [latest EXCEPT !.images[id] = d]
    /\ UNCHANGED <<cache, state, logs>>
    /\ StoreFrame

NextStore ==
    ApiSet \/ ApiClear \/ ApiSaveBlockState \/ ApiSaveLogs \/ ApiSaveImageDigest

\* the calls of the Cache Index and of the State Store, in any order
SpecStore == InitStore /\ [][NextStore]_vars

InitOps == InitWith("build", Pair("RUN 1", FALSE), PairProjects, MaxOpsSteps)

NextOps == RunRequest \/ UpRequest \/ ClearCacheRequest \/ CleanupRequest

\* the engine's requests together with the store's maintenance operations
SpecOps == InitOps /\ [][NextOps]_vars

NextConc ==
    \E p \in Procs :
        \/ CResolve(p) \/ CLookup(p) \/ CSaveCached(p) \/ CSaveRunning(p)
        \/ CClearLogs(p) \/ CBuild(p) \/ CHistory(p) \/ CSaveFinal(p)
        \/ CCacheLoad(p) \/ CCacheSave(p)

\* two invocations of RunBlock whose store and runtime operations interleave
SpecConc == InitConc /\ [][NextConc]_vars

\* the build engine on every dependency graph of GraphProjects
SpecGraph == InitGraph /\ [][Next]_vars

----------------------------------------------------------------------------
(* Properties of the last request *)

Tr == last.trace

IsRun == last.op = "RunBlock"

\* the positions of the request's trace that hold an event of kind ev
Events(ev) == { i \in DOMAIN Tr : Tr[i].ev = ev }

\* the request was an unforced RunBlock whose cache lookup found an entry
TopHit ==
    /\ IsRun /\ ~last.force
    /\ \E i \in At(Tr, "lookup", last.id) : Tr[i].status = "hit"

\* the hash the last RunBlock computed for its block (it is in every
\* BlockState the call writes)
TopHash == state[last.id].Hash

\* the last RunBlock got past parent resolution and wrote its block's state
TopRan == IsRun /\ last.err = "" /\ At(Tr, "save", last.id) # {}

\* the call submitted its block to the runtime (build, or container create)
TopBuilt == At(Tr, "build", last.id) \cup At(Tr, "create", last.id) # {}

\* C1: a RunBlock(id, force=false) whose hash is in the Cache Index persists
\* status cached with the hit digest and the computed hash, returns success,
\* and calls no runtime mutation (pull, build, create) anywhere in the call.
C1_CacheHitTouchesNoRuntime ==
    TopHit =>
        /\ last.err = ""
        /\ state[last.id].Status = "cached"
        /\ \E i \in At(Tr, "lookup", last.id) :
              /\ state[last.id].Digest = Tr[i].digest
              /\ state[last.id].Hash = Tr[i].hash
        /\ \A i \in DOMAIN Tr : Tr[i].ev \notin {"pull", "build", "create"}

\* C2 (as claimed): on a cache hit the digest in the block's BlockState after
\* the call equals the digest that was in its BlockState before the call.
C2_HitKeepsPriorDigest ==
    TopHit => state[last.id].Digest = last.preState[last.id].Digest

\* C2 (amended): on a cache hit the BlockState written has status cached, the
\* computed hash and the digest the Cache Index holds for that hash, whatever
\* digest the BlockState held before; the Cache Index entry is not changed.
C2_HitDigestIsCacheEntry ==
    TopHit =>
        /\ state[last.id].Status = "cached"
        /\ TopHash \in DOMAIN cache
        /\ state[last.id].Digest = cache[TopHash]
        /\ TopHash \in DOMAIN last.preCache => cache[TopHash] = last.preCache[TopHash]

C2_Witness ==
    /\ TopHit
    /\ last.preState[last.id].Status = "success"
    /\ last.preState[last.id].Digest # state[last.id].Digest

\* C3: the Cache Index is written only by a RunBlock whose final status is
\* success, with that run's hash and digest; every successful run writes it
\* (overwriting an older entry of the same hash); a request leaves every entry
\* it did not write this way as it was; and a RunBlock that ends failed or
\* aborts with an error leaves every existing entry, its own included, as it was.
C3_CacheWrittenOnlyOnSuccess ==
    /\ \A i \in Events("cacheset") :
          /\ i > 1
          /\ Tr[i-1].ev = "save" /\ Tr[i-1].id = Tr[i].id
          /\ Tr[i-1].status = "success"
          /\ Tr[i-1].hash = Tr[i].hash /\ Tr[i-1].digest = Tr[i].digest
    /\ \A i \in Events("save") :
          Tr[i].status = "success" =>
              /\ i < Len(Tr)
              /\ Tr[i+1].ev = "cacheset" /\ Tr[i+1].hash = Tr[i].hash
              /\ Tr[i+1].digest = Tr[i].digest
          
    /\ last.op # "none" =>
          /\ DOMAIN last.preCache \subseteq DOMAIN cache
          /\ \A h \in DOMAIN cache :
                LET W == { i \in Events("cacheset") : Tr[i].hash = h } IN
                IF W = {} THEN h \in DOMAIN last.preCache /\ cache[h] = last.preCache[h]
                ELSE cache[h] = Tr[Max(W)].digest
    /\ (IsRun /\ (last.err # "" \/ state[last.id].Status = "failed")) =>
          \A h \in DOMAIN last.preCache : cache[h] = last.preCache[h]

\* a forced re-run failed while the Cache Index held an entry for its hash
C3_Witness ==
    /\ IsRun /\ last.force
    /\ state[last.id].Status = "failed"
    /\ state[last.id].Hash \in DOMAIN last.preCache

\* C4: after a RunBlock of B ends failed, the digest in B's BlockState is still
\* the digest of B's most recent successful build.
C4_FailedKeepsDigest ==
    \A b \in BlockIds :
        (state[b].Status = "failed" /\ history[b] # <<>>) =>
            state[b].Digest = history[b][Len(history[b])].Digest

\* C5 (as claimed): after a RunBlock of B ended failed, the next unforced
\* RunBlock(B) persists running and submits a build, whatever ran before.
C5_FailedAlwaysRebuilds ==
    (TopRan /\ ~last.force /\ last.preState[last.id].Status = "failed") =>
        /\ \E i \in At(Tr, "save", last.id) : Tr[i].status = "running"
        /\ TopBuilt

\* the Cache Index held an entry for hash h when the last RunBlock looked it up
InCacheAtLookup(h) ==
    \/ h \in DOMAIN last.preCache
    \/ \E i \in Events("cacheset"), j \in At(Tr, "lookup", last.id) :
          i < j /\ Tr[i].hash = h

\* C5 (amended): after a RunBlock of B ended failed, the next unforced
\* RunBlock(B) persists running and submits a build exactly when the Cache
\* Index holds no entry for the hash it computes; when an earlier successful
\* build under the same hash left an entry, it returns cached with that
\* entry's digest and submits nothing.
C5_FailedRebuildsUnlessCached ==
    (TopRan /\ ~last.force /\ last.preState[last.id].Status = "failed") =>
        IF InCacheAtLookup(TopHash)
        THEN /\ state[last.id].Status = "cached"
             /\ state[last.id].Digest = cache[TopHash]
             /\ ~TopBuilt
        ELSE /\ \E i \in At(Tr, "save", last.id) : Tr[i].status = "running"
             /\ TopBuilt

C5_Witness ==
    /\ TopRan /\ ~last.force /\ last.preState[last.id].Status = "failed"
    /\ state[last.id].Status = "cached"

Hashed(b) == last.op # "none" /\ At(Tr, "resolved", b) # {}

Unpinned(b) ==
    /\ FindBlock(b).FromBlock \in BlockIds
    /\ FindBlock(b).FromBlockVersion = ""

\* C7 (as claimed): once the digest in P's BlockState was replaced by a
\* different digest, the next RunBlock of a block C with unpinned from_block: P
\* computes a hash different from the one C's BlockState carried before.
C7_RebuiltParentChangesHash ==
    \A b \in BlockIds :
        (Hashed(b) /\ Unpinned(b) /\ last.preRebuilt[b]) =>
            state[b].Hash # last.preState[b].Hash

\* C7 (amended): if the hash in C's BlockState was computed from C's present
\* definition and parent digest d1, and the next RunBlock of C (unpinned
\* from_block: P) finds the digest d2 # d1 in P's BlockState, then it computes
\* a hash different from the one C's BlockState carried, and no Cache Index
\* entry written under the old hash serves it.
C7_ChangedParentDigestChangesHash ==
    \A b \in BlockIds :
        ( /\ Hashed(b) /\ Unpinned(b)
          /\ last.preInput[b].block = FindBlock(b)
          /\ hashInput[b].parent # last.preInput[b].parent ) =>
            /\ state[b].Hash # last.preState[b].Hash
            /\ state[b].Hash = ComputeBlockHash(FindBlock(b), hashInput[b].parent)

\* C was built on d1, P was rebuilt to another digest, and C ran again
C7_Witness ==
    \E b \in BlockIds :
        /\ Hashed(b) /\ Unpinned(b) /\ last.preRebuilt[b]
        /\ last.preInput[b].block = FindBlock(b)
        /\ last.preInput[b].parent # ""
        /\ hashInput[b].parent # last.preInput[b].parent

\* C10: for a block C with unpinned from_block: P whose parent has the recorded
\* digest d, the base image RunBlock(C) submits to the runtime is d.
C10_BaseIsParentImage ==
    \A b \in BlockIds : \A i \in At(Tr, "build", b) \cup At(Tr, "create", b) :
        (last.op # "none" /\ Unpinned(b)) =>
            LET d == hashInput[b].parent IN
            /\ d = state[FindBlock(b).FromBlock].Digest
            /\ Tr[i].arg = IF Tr[i].ev = "build"
                           THEN generateDockerfile(FindBlock(b), d)
                           ELSE d

\* the drawn inputs agree on every field ComputeBlockHash reads
SameHashInputs ==
    /\ hA.ID = hB.ID /\ hA.From = hB.From /\ hA.FromBlock = hB.FromBlock
    /\ hA.Context = hB.Context /\ hA.Instructions = hB.Instructions
    /\ hPA = hPB

\* C8: two inputs that differ in the instruction list, the declared parent
\* (from / from_block), the context path or the parent digest have different
\* hashes.
C8_HashDistinguishesInputs ==
    ( /\ Len(hOut) = 2
      /\ \/ hA.Instructions # hB.Instructions
         \/ hA.From # hB.From \/ hA.FromBlock # hB.FromBlock
         \/ hA.Context # hB.Context
         \/ hPA # hPB ) => hOut[1] # hOut[2]

\* C9: two inputs that agree on (id, from, from_block, context, instruction
\* list, parent digest) have the same hash, whatever their from_block_version
\* and export settings are.
C9_HashReadsOnlyItsInputs ==
    (Len(hOut) = 2 /\ SameHashInputs) => hOut[1] = hOut[2]

\* two blocks that differ in from_block_version and export were hashed alike
C9_Witness ==
    /\ Len(hOut) = 2 /\ SameHashInputs
    /\ hA.FromBlockVersion # hB.FromBlockVersion /\ hA.Export # hB.Export
    /\ hOut[1] = hOut[2]

\* the block the last RunBlock was asked to run is pinned to a version of a
\* parent block that is in the project
TopPinned ==
    /\ IsRun
    /\ FindBlock(last.id).FromBlock \in BlockIds
    /\ FindBlock(last.id).FromBlockVersion # ""
    /\ FindBlock(FindBlock(last.id).FromBlock) # NoBlock

\* C11: for a block C with from_block: P and from_block_version: v, parent
\* resolution returns v as the digest used for hashing, whatever P's BlockState
\* is, and RunBlock(C) never runs P and writes neither P's BlockState nor a
\* cache entry nor a history record of P.
C11_PinnedResolvesToVersion ==
    TopPinned =>
        LET c == FindBlock(last.id)
            P == c.FromBlock
        IN  /\ last.err = ""
            /\ \A i \in At(Tr, "resolved", last.id) : Tr[i].digest = c.FromBlockVersion
            /\ At(Tr, "resolved", last.id) # {}
            /\ state[last.id].Hash = ComputeBlockHash(c, c.FromBlockVersion)
            /\ \A i \in DOMAIN Tr : Tr[i].id # P
            /\ state[P] = last.preState[P]
            /\ history[P] = last.preHistory[P]
            /\ \A h \in DOMAIN cache :
                  h \notin DOMAIN last.preCache => h = state[last.id].Hash

\* the pinned child ran while its parent's BlockState held another digest
C11_Witness ==
    /\ TopPinned
    /\ state[FindBlock(last.id).FromBlock].Digest
           \notin {"", FindBlock(last.id).FromBlockVersion}
    /\ state[last.id].Hash =
           ComputeBlockHash(FindBlock(last.id), FindBlock(last.id).FromBlockVersion)

\* C12: when from_block_version is set, parent resolution succeeds only with
\* a digest recorded in the parent block's ImageRecord history.
C12_PinnedDigestIsRecorded ==
    (TopPinned /\ last.err = "") =>
        \E k \in DOMAIN last.preHistory[FindBlock(last.id).FromBlock] :
            last.preHistory[FindBlock(last.id).FromBlock][k].Digest
                = hashInput[last.id].parent

\* the from_block edges of the blocks, and whether they contain a cycle
FromBlockEdges(blocks) ==
    { <<blocks[i].ID, blocks[i].FromBlock>> :
        i \in { j \in DOMAIN blocks : blocks[j].FromBlock # "" } }

RECURSIVE ReachIn(_, _, _, _)
ReachIn(E, a, b, n) ==
    \/ <<a, b>> \in E
    \/ /\ n > 1
       /\ \E e \in E : e[1] = a /\ ReachIn(E, e[2], b, n - 1)

HasFromBlockCycle(blocks) ==
    LET E == FromBlockEdges(blocks) IN
    \E e \in E : ReachIn(E, e[1], e[1], Cardinality(E))

\* the two-block project {A from_block B, B from_block A}, in either order
TwoBlockCycle(p) ==
    /\ p.Version # "" /\ p.Name # ""
    /\ Len(p.Blocks) = 2
    /\ \E i, j \in 1..2 :
          /\ i # j
          /\ p.Blocks[i] = Block("A", "", "B", "", <<"RUN x">>, "", FALSE, "")
          /\ p.Blocks[j] = Block("B", "", "A", "", <<"RUN x">>, "", FALSE, "")

\* C13: Validate rejects every project whose from_block edges contain a
\* cycle, and for the two-block project {A from_block B, B from_block A} the
\* error is the circular-dependency error, in either declaration order.
C13_CycleRejectedAsCircular ==
    vErr # "unset" =>
        /\ HasFromBlockCycle(vProject.Blocks) => vErr # ""
        /\ TwoBlockCycle(vProject) => vErr = "CircularDependency"

\* C13, first half alone: every project with a from_block cycle is rejected
C13_CycleRejected ==
    (vErr # "unset" /\ HasFromBlockCycle(vProject.Blocks)) => vErr # ""

\* the last request was a RunBlock on a block of a from_block cycle of the
\* project
TopOnCycle ==
    /\ IsRun
    /\ ReachIn(FromBlockEdges(project), last.id, last.id, Len(project))

\* C14: with a from_block cycle in the in-memory project, RunBlock on a block
\* of the cycle terminates and returns a circular-dependency error, for every
\* combination of persisted BlockStates of the cycle's blocks.
C14_CycleRunReturnsCircular ==
    TopOnCycle => last.err = "CircularDependency"

\* the errors that abort RunBlock before it computes the hash
AbortErrors == {"NotFound", "CircularDependency", "ParentUnresolved"}

\* C15: a RunBlock(id) that aborts with NotFound, CircularDependency or
\* ParentUnresolved returns the error and leaves id's BlockState, logs and
\* image history as they were, writes no running and no failed state for id,
\* and leaves every entry of the Cache Index as it was (the runs of id's
\* ancestors nested in the call write only entries of their own).
C15_AbortWritesNothing ==
    (IsRun /\ last.err \in AbortErrors) =>
        /\ state[last.id] = last.preState[last.id]
        /\ history[last.id] = last.preHistory[last.id]
        /\ \A i \in DOMAIN Tr :
              Tr[i].id = last.id => Tr[i].ev \in {"run", "return"}
        /\ \A h \in DOMAIN last.preCache :
              h \in DOMAIN cache /\ cache[h] = last.preCache[h]
        /\ Tr[Len(Tr)] = Ev("return", last.id, "", last.err, "", "")

\* a block that had been built aborted because its parent, run again, failed
C15_Witness ==
    /\ IsRun /\ last.err = "ParentUnresolved"
    /\ last.preState[last.id].Status = "success"
    /\ last.preCache # <<>>

\* the calls of the Container Runtime
RuntimeCalls == {"pull", "inspect", "build", "create", "start", "wait", "commit"}

\* a call of the Container Runtime failed during the last request
RuntimeFailed == \E i \in DOMAIN Tr : Tr[i].ev \in RuntimeCalls /\ Tr[i].status = "error"

\* C16: every Container Runtime failure during RunBlock(B), in pull, inspect,
\* build, create, start, wait or commit, ends with B's BlockState persisted as
\* failed with a non-empty error message.
C16_RuntimeFailureRecorded ==
    (IsRun /\ RuntimeFailed) =>
        /\ state[last.id].Status = "failed"
        /\ state[last.id].Error # ""

IsUp == last.op \in {"RunUp", "RunUpContinue"}

\* C17: within one caller request the build of any given block is submitted
\* to the Container Runtime at most once, and a block whose last run ended
\* failed is not executed again as a side effect of a request for another
\* block.
C17_NoAutomaticRerun ==
    /\ \A b \in BlockIds :
          Cardinality(At(Tr, "build", b) \cup At(Tr, "create", b)) <= 1
    /\ \A b \in BlockIds :
          (IsRun /\ last.id # b /\ last.preState[b].Status = "failed") =>
              At(Tr, "run", b) = {}

IsUpEvent(e) == e.ev = "up"

\* the blocks RunUp invoked RunBlock on, in the order of the invocations
UpSeq == SelectSeq(Tr, IsUpEvent)

\* the position in the project of the block RunUp was told to start from
UpStart ==
    IF last.id = "" THEN 1
    ELSE CHOOSE i \in DOMAIN project : project[i].ID = last.id

\* C18: RunUp invokes RunBlock on the project's blocks in declared list order,
\* each listed block at most once and, unless it stops on an error, exactly
\* once, starting at the block named by startFrom (at the first block when
\* startFrom is empty) and never directly on a block declared before it.
C18_RunUpInDeclaredOrder ==
    IsUp =>
        /\ Len(UpSeq) <= Len(project) - UpStart + 1
        /\ \A j \in DOMAIN UpSeq : UpSeq[j].id = project[UpStart + j - 1].ID
        /\ \A i \in Events("up") :
              i < Len(Tr) /\ Tr[i + 1].ev = "run" /\ Tr[i + 1].id = Tr[i].id
        /\ (last.err = "" \/ last.op = "RunUpContinue") =>
              Len(UpSeq) = Len(project) - UpStart + 1

\* RunUp started at B: it ran A only inside B's parent resolution
C18_Witness ==
    /\ IsUp /\ last.id = "B"
    /\ Len(UpSeq) = 1 /\ UpSeq[1].id = "B"
    /\ At(Tr, "run", "A") # {}

\* C19: with continueOnError unset, as soon as a block of a RunUp fails (its
\* run ends with status failed, or RunBlock returns an error) RunUp invokes
\* RunBlock on no later block and returns an error.
C19_RunUpStopsOnFailure ==
    last.op = "RunUp" =>
        \A i \in DOMAIN Tr :
            ( \/ Tr[i].ev = "save" /\ Tr[i].status = "failed"
              \/ Tr[i].ev = "return" /\ Tr[i].status # "" ) =>
                /\ \A j \in Events("up") : j < i
                /\ last.err # ""

\* C20: in a RunUp with continueOnError set, once block P's run has ended
\* failed, the run of every later block C with unpinned from_block: P returns
\* a parent-has-no-digest error and C's BlockState is never written as
\* running.
C20_ChildOfFailedParentFails ==
    last.op = "RunUpContinue" =>
        \A i \in Events("save"), j \in Events("up") :
            ( /\ Tr[i].status = "failed" /\ i < j
              /\ \E k \in At(Tr, "up", Tr[i].id) : k < i
              /\ Unpinned(Tr[j].id)
              /\ FindBlock(Tr[j].id).FromBlock = Tr[i].id ) =>
                /\ \E k \in At(Tr, "return", Tr[j].id) :
                      k > j /\ Tr[k].status = "ParentUnresolved"
                /\ \A k \in At(Tr, "save", Tr[j].id) :
                      k > j => Tr[k].status # "running"

\* the last request was an unforced RunUp of the whole project that directly
\* followed a RunUp of the whole project after which every block was success
SecondRunUp ==
    /\ IsUp /\ ~last.force /\ last.id = ""
    /\ last.prev.op \in {"RunUp", "RunUpContinue"} /\ last.prev.id = ""
    /\ \A b \in BlockIds : last.preState[b].Status = "success"

\* C21: after a RunUp in which every block ended success, a second RunUp
\* without force (project and external image unchanged) ends with every block
\* cached with the same digest, appends no ImageRecord and leaves the Cache
\* Index unchanged.
C21_SecondRunUpAllCached ==
    SecondRunUp =>
        /\ \A b \in BlockIds :
              /\ state[b].Status = "cached"
              /\ state[b].Digest = last.preState[b].Digest
        /\ history = last.preHistory
        /\ cache = last.preCache

\* C21 holds of every second RunUp in which no runtime call failed
C21_SecondRunUpAllCachedUnlessPullFails ==
    (SecondRunUp /\ ~RuntimeFailed) =>
        /\ \A b \in BlockIds :
              /\ state[b].Status = "cached"
              /\ state[b].Digest = last.preState[b].Digest
        /\ history = last.preHistory
        /\ cache = last.preCache

\* the last request was a forced RunBlock of a block whose parent block held
\* a digest
TopForcedChild ==
    /\ IsRun /\ last.force
    /\ FindBlock(last.id).FromBlock \in BlockIds
    /\ last.preState[FindBlock(last.id).FromBlock].Digest # ""

\* C22: RunBlock(id, force=true) on a block whose parent block has a digest
\* skips the cache lookup, submits the build of id and, when the build
\* succeeds, appends a new ImageRecord for id; it leaves the BlockState, image
\* history and logs of every other block unchanged and runs no other block.
C22_ForceRebuildsOnlyTarget ==
    TopForcedChild =>
        /\ last.err = ""
        /\ Events("lookup") = {}
        /\ Cardinality(At(Tr, "build", last.id)) = 1
        /\ state[last.id].Status \in {"success", "failed"}
        /\ state[last.id].Status = "success" =>
              /\ Len(history[last.id]) = Len(last.preHistory[last.id]) + 1
              /\ \A k \in DOMAIN last.preHistory[last.id] :
                    history[last.id][k] = last.preHistory[last.id][k]
              /\ history[last.id][Len(history[last.id])].Digest = state[last.id].Digest
        /\ \A b \in BlockIds \ {last.id} :
              /\ state[b] = last.preState[b]
              /\ history[b] = last.preHistory[b]
              /\ \A i \in DOMAIN Tr : Tr[i].id # b

\* a forced rebuild of a block whose hash was in the Cache Index succeeded
C22_Witness ==
    /\ TopForcedChild
    /\ state[last.id].Status = "success"
    /\ TopHash \in DOMAIN last.preCache
    /\ last.preHistory[last.id] # <<>>

\* C23: when RunBlock(X) and RunBlock(Y) run concurrently for unrelated
\* blocks, under every interleaving of their store operations the BlockState,
\* logs and history of a block are written by that block's own run only, and
\* the final BlockState of each block is the one its own run wrote last.
C23_UnrelatedRunsKeepOwnState ==
    (\A p, q \in Procs : p # q => procs[p].id # procs[q].id) =>
        /\ \A b \in BlockIds : \A p \in writers[b] : procs[p].id = b
        /\ \A p \in Procs :
              procs[p].wrote # NoState => state[procs[p].id] = procs[p].wrote

\* both blocks are running at the same time
C23_Witness ==
    /\ procs["p1"].id # procs["p2"].id
    /\ \A p \in Procs : procs[p].pc \in {"clearlogs", "build", "history", "savefinal"}
    /\ \A b \in BlockIds : state[b].Status = "running"

\* the digest the latest Set of hash h in the trace tr stored
LatestSet(tr, h) ==
    tr[Max({ i \in DOMAIN tr : tr[i].ev = "cacheset" /\ tr[i].hash = h })].digest

\* C24: without an explicit Clear the Cache Index never loses an entry: every
\* step (RunBlock, RunUp, and the Sets they make) keeps every hash the index
\* held, with the digest it had or with the digest of the latest Set for it.
C24_CacheNeverLosesEntry ==
    [][\A h \in DOMAIN cache :
          /\ h \in DOMAIN cache'
          /\ \/ /\ cache'[h] = cache[h]
                /\ \A i \in DOMAIN last'.trace :
                      (last' # last /\ last'.trace[i].ev = "cacheset"
                         /\ last'.trace[i].hash = h) => last'.trace[i].digest = cache[h]
             \/ /\ last' # last
                /\ \E i \in DOMAIN last'.trace :
                      last'.trace[i].ev = "cacheset" /\ last'.trace[i].hash = h
                /\ cache'[h] = LatestSet(last'.trace, h)]_vars

\* the index holds two entries, one of which the last request overwrote
C24_Witness ==
    /\ Cardinality(DOMAIN cache) >= 2
    /\ \E h \in DOMAIN last.preCache : cache[h] # last.preCache[h]

\* the ImageRecords the requests' trace tr appended for block b, in order
Appended(tr, b) ==
    LET IsRecord(e) == e.ev = "history" /\ e.id = b
        evs == SelectSeq(tr, IsRecord)
    IN  [i \in DOMAIN evs |-> [Digest |-> evs[i].digest, Dockerfile |-> evs[i].arg]]

\* C25: a block's image history is append-only: across RunBlock, RunUp,
\* ClearCache and Cleanup the history loaded for a block after a step is the
\* history loaded before it followed by the records of the builds that
\* succeeded during the step, in the order in which they succeeded.
C25_HistoryAppendOnly ==
    [][\A b \in BlockIds :
          IF last' # last /\ last'.op \in {"RunBlock", "RunUp", "RunUpContinue"}
          THEN history'[b] = history[b] \o Appended(last'.trace, b)
          ELSE history'[b] = history[b]]_vars

\* a block was built again after Cleanup had removed its state
C25_Witness ==
    /\ \E b \in BlockIds :
          /\ last.preState[b].Status = "absent"
          /\ last.preHistory[b] # <<>>
          /\ Len(history[b]) = Len(last.preHistory[b]) + 1

C27_ValidateIgnoresOrder ==
    vErr # "unset" => ((vErr = "") <=> (vErrReversed = ""))

\* C28: the Cache Index and the State Store behave as per-key
\* last-writer-wins maps: Get(h) returns the digest of the latest Set(h, d)
\* since the last Clear and not-found for a hash not set since, Count is the
\* number of distinct hashes set since the last Clear (0 right after Clear),
\* and loading a BlockState, a log or an image digest by block id returns the
\* value of the latest save under that id.
C28_StoreIsLastWriterWinsMap ==
    /\ \A h \in StoreHashes :
          GetCachedDigest(Here, h) =
              IF h \in DOMAIN latest.cache
              THEN [digest |-> latest.cache[h], exists |-> TRUE]
              ELSE [digest |-> "", exists |-> FALSE]
    /\ GetCacheStats(Here) = Cardinality(DOMAIN latest.cache)
    /\ \A id \in BlockIds :
          /\ LoadBlockState(Here, id) = latest.state[id]
          /\ LoadLogs(logs, id) = latest.logs[id]
          /\ LoadImageDigest(images, id) = latest.images[id]

\* after a Clear one hash was set again, and the two blocks hold different
\* states, logs and digests
C28_Witness ==
    /\ latest.cache # <<>> /\ Cardinality(DOMAIN cache) = 1
    /\ state["A"].Status = "success" /\ state["B"].Status = "failed"
    /\ logs["A"] = "l1" /\ logs["B"] = "l2"
    /\ images["A"] = "d1" /\ images["B"] = "d2"

\* the request wrote the running state of block id before position i of its trace
RunningSavedBefore(id, i) ==
    \E j \in 1..(i - 1) :
        Tr[j].ev = "save" /\ Tr[j].id = id /\ Tr[j].status = "running"

\* C29: on a cache miss or a forced run RunBlock persists the block's
\* BlockState as running before it invokes any Container Runtime operation for
\* that request, so that whoever reads the store while runtime work of the
\* request is in progress sees status running for the requested block.
C29_RunningBeforeAnyRuntimeCall ==
    (IsRun /\ RunningSavedBefore(last.id, Len(Tr))) =>
        \A i \in DOMAIN Tr :
            Tr[i].ev \in RuntimeCalls => RunningSavedBefore(last.id, i)

\* what the engine does guarantee: the build of a block is submitted only
\* after that block's running state was written
C29_RunningBeforeOwnBuild ==
    \A i \in DOMAIN Tr :
        Tr[i].ev \in {"build", "create"} => RunningSavedBefore(Tr[i].id, i)

\* C30: in every reachable state of the store a BlockState with status
\* success or cached carries a non-empty digest, also for an ephemeral block
\* and when the commit fails after the instructions exited with code 0.
C30_SuccessCarriesDigest ==
    \A b \in BlockIds :
        state[b].Status \in {"success", "cached"} => state[b].Digest # ""

\* C31: every RunBlock invocation that persists running, and whose runtime
\* and store calls return, persists a terminal status (success or failed) for
\* that block before it returns, also when the runtime call failed (a
\* cancelled context is one such failure): running is never the last status
\* an invocation that returns has written.
C31_RunningIsFollowedByTerminal ==
    \A i \in DOMAIN Tr :
        (Tr[i].ev = "save" /\ Tr[i].status = "running") =>
            \E j \in (i + 1)..Len(Tr) :
                /\ Tr[j].ev = "save" /\ Tr[j].id = Tr[i].id
                /\ Tr[j].status \in {"success", "failed"}
                /\ \A k \in (i + 1)..(j - 1) :
                      ~(Tr[k].ev = "save" /\ Tr[k].id = Tr[i].id)

\* the build of the requested block failed in the runtime after running was
\* written, and the block was left failed
C31_Witness ==
    /\ IsRun /\ RunningSavedBefore(last.id, Len(Tr))
    /\ \E i \in DOMAIN Tr :
          Tr[i].ev = "build" /\ Tr[i].id = last.id /\ Tr[i].status = "error"
    /\ state[last.id].Status = "failed"

----------------------------------------------------------------------------
(* A chain of four blocks *)

ChainIds == {"A", "B", "C", "D"}

\* A from an external image, B on A, C on B, D on C
Chain ==
    << Block("A", "img", "", "", <<"RUN 1">>, "", FALSE, ""),
       Block("B", "", "A", "", <<"RUN b">>, "", FALSE, ""),
       Block("C", "", "B", "", <<"RUN c">>, "", FALSE, ""),
       Block("D", "", "C", "", <<"RUN d">>, "", FALSE, "") >>

InitChain ==
    /\ impl = "build"
    /\ projects = {Chain}
    /\ project = Chain
    /\ state = [b \in ChainIds |-> NoState]
    /\ cache = <<>>
    /\ history = [b \in ChainIds |-> <<>>]
    /\ extDigest = "x1"
    /\ budget = MaxChainSteps
    /\ hashInput = [b \in BlockIds |-> NoInput]
    /\ rebuilt = [b \in BlockIds |-> FALSE]
    /\ last = NoRequest
    /\ hA = NoBlock /\ hB = NoBlock /\ hPA = "" /\ hPB = "" /\ hOut = <<>>
    /\ vProject = NoProject /\ vErr = "unset" /\ vErrReversed = "unset"
    /\ NoProcs
    /\ NoSaves

\* dockstep run <id> [--force] on the chain
ChainRequest ==
    /\ budget > 0
    /\ \E id \in ChainIds, force \in BOOLEAN :
         \E r \in RunBlock(Here, id, force) :
            /\ state' = r.w.state
            /\ cache' = r.w.cache
            /\ history' = r.w.history
            /\ last' = [NoRequest EXCEPT !.op = "RunBlock", !.id = id, !.force = force,
                                         !.err = r.err, !.trace = r.w.trace,
                                         !.preState = state]
    /\ budget' = budget - 1
    /\ UNCHANGED <<impl, projects, project, extDigest, hashInput, rebuilt>>
    /\ UNCHANGED pureVars
    /\ UNCHANGED concVars
    /\ UNCHANGED storeVars
    /\ UNCHANGED execVars
    /\ UNCHANGED serverVars
    /\ UNCHANGED tagVars

SpecChain == InitChain /\ [][ChainRequest]_vars

RECURSIVE AncestorsOf(_)

\* the blocks b reaches through unpinned from_block edges
AncestorsOf(b) ==
    LET blk == FindBlock(b) IN
    IF blk = NoBlock \/ blk.FromBlock = "" \/ blk.FromBlockVersion # "" THEN {}
    ELSE {blk.FromBlock} \cup AncestorsOf(blk.FromBlock)

\* the digest in b's BlockState when the request was at position i of its trace
DigestAt(b, i) ==
    LET S == { j \in At(Tr, "save", b) : j < i } IN
    IF S = {} THEN last.preState[b].Digest ELSE Tr[Max(S)].digest

\* the requested block's unpinned parent had no digest when the request began
ParentHadNoDigest ==
    /\ IsRun /\ FindBlock(last.id) # NoBlock
    /\ FindBlock(last.id).FromBlock \in ChainIds
    /\ FindBlock(last.id).FromBlockVersion = ""
    /\ last.preState[FindBlock(last.id).FromBlock].Digest = ""

----------------------------------------------------------------------------
(* Build logs *)

\* what the runtime streams to the log callback during one build: nothing,
\* or chunks of output
Outputs == { <<>>, <<"l1">>, <<"l2">> }

\* AppendLogs: the chunks are appended to logs/<block-id>.log
AppendLogs(lg, id, chunks) == [lg EXCEPT ![id] = @ \o chunks]

\* ClearLogs: logs/<block-id>.log is truncated
TruncateLogs(lg, id) == [lg EXCEPT ![id] = <<>>]

\* RunBlock after a build that ended success: the latest-attempt log is
\* copied to logs/<block-id>.success.log when it is not empty
SaveSuccessfulLogs(sl, lg, id) ==
    IF Len(LoadLogs(lg, id)) > 0 THEN [sl EXCEPT ![id] = LoadLogs(lg, id)] ELSE sl

\* the log files after the events i.. of the trace tr of a request, when the
\* build at position j streamed out[j]; f holds the files and the output of
\* the most recent successful build
RECURSIVE LogsAfter(_, _, _, _)
LogsAfter(tr, out, i, f) ==
    IF i > Len(tr) THEN f
    ELSE LET e == tr[i] IN
         LogsAfter(tr, out, i + 1,
             IF e.ev = "clearlogs"
             THEN [f EXCEPT !.logs = TruncateLogs(@, e.id), !.out[e.id] = <<>>]
             ELSE IF e.ev = "build"
             THEN [f EXCEPT !.logs = AppendLogs(@, e.id, out[i]), !.out[e.id] = out[i]]
             ELSE IF e.ev = "save" /\ e.status = "success"
             THEN [f EXCEPT !.success = SaveSuccessfulLogs(@, f.logs, e.id),
                            !.captured[e.id] = f.out[e.id]]
             ELSE f)

InitLogs == InitWith("build", Pair("RUN 1", FALSE), PairProjects, MaxLogSteps)

\* dockstep run <id> [--force], with the log files it leaves
LogRunRequest ==
    /\ budget > 0
    /\ \E id \in BlockIds, force \in BOOLEAN :
         \E r \in RunBlock(Here, id, force) :
           \E out \in [Events2(r.w.trace, "build") -> Outputs] :
             LET f == LogsAfter(r.w.trace, out, 1,
                                [logs |-> logs, success |-> successLogs,
                                 captured |-> captured,
                                 out |-> [b \in BlockIds |-> <<>>]])
             IN  /\ state' = r.w.state
                 /\ cache' = r.w.cache
                 /\ history' = r.w.history
                 /\ logs' = f.logs
                 /\ successLogs' = f.success
                 /\ captured' = f.captured
                 /\ last' = [NoRequest EXCEPT !.op = "RunBlock", !.id = id,
                                              !.force = force, !.err = r.err,
                                              !.trace = r.w.trace]
    /\ budget' = budget - 1
    /\ UNCHANGED <<impl, projects, project, extDigest, hashInput, rebuilt>>
    /\ UNCHANGED pureVars
    /\ UNCHANGED <<procs, writers, images, latest, persisted>>
    /\ UNCHANGED execVars
    /\ UNCHANGED serverVars
    /\ UNCHANGED tagVars

SpecLogs == InitLogs /\ [][LogRunRequest]_vars

\* C33: after any sequence of runs of block B the last-successful log of B
\* equals the log output captured during B's most recent build that ended
\* success; a failed run clears and rewrites only the latest-attempt log, and
\* a cache hit modifies neither log.
C33_SuccessLogIsLastSuccessfulOutput ==
    \A b \in BlockIds :
        captured[b] # NoBuild => successLogs[b] = captured[b]

\* what holds: the last-successful log is the output of the most recent
\* successful build that streamed any output
C33_SuccessLogIsLastNonEmptyOutput ==
    \A b \in BlockIds :
        (captured[b] # NoBuild /\ captured[b] # <<>>) => successLogs[b] = captured[b]

----------------------------------------------------------------------------
(* executeBlock of the container engine: the caller, the log follower and
   the container *)

InitFollow == InitWith("container", Pair("RUN 1", FALSE), EphemeralProjects, 0)

FollowFrame ==
    /\ UNCHANGED <<impl, projects, project, state, cache, history, extDigest,
                   budget, hashInput, rebuilt, last>>
    /\ UNCHANGED pureVars
    /\ UNCHANGED concVars
    /\ UNCHANGED storeVars
    /\ UNCHANGED serverVars
    /\ UNCHANGED tagVars

\* executeBlock creates and starts the container of a block
EStart ==
    /\ exec.pc = "none"
    /\ \E eph \in BOOLEAN :
         exec' = [pc |-> "follow", ephemeral |-> eph, follower |-> "idle",
                  container |-> "running", exitCode |-> 0, unread |-> 0,
                  written |-> 0, closed |-> FALSE, log |-> 0, committed |-> FALSE]
    /\ FollowFrame

\* ClearLogs, then the goroutine that follows the container's logs starts
EFollow ==
    /\ exec.pc = "follow"
    /\ exec' = [exec EXCEPT !.pc = "wait", !.follower = "following", !.log = 0]
    /\ FollowFrame

\* the container writes a chunk of output
ContainerWrites ==
    /\ exec.pc # "none" /\ exec.container = "running" /\ exec.written < MaxChunks
    /\ exec' = [exec EXCEPT !.unread = @ + 1, !.written = @ + 1]
    /\ FollowFrame

\* the command of the container exits
ContainerExits ==
    /\ exec.pc # "none" /\ exec.container = "running"
    /\ \E code \in {0, 1} :
         exec' = [exec EXCEPT !.container = "exited", !.exitCode = code]
    /\ FollowFrame

\* the runtime closes the log stream of the exited container (it may never)
StreamCloses ==
    /\ exec.pc # "none" /\ exec.container = "exited" /\ ~exec.closed
    /\ exec' = [exec EXCEPT !.closed = TRUE]
    /\ FollowFrame

\* storeAppendWriter.Write: the follower appends a chunk to the log
FollowerAppends ==
    /\ exec.pc # "none" /\ exec.follower = "following" /\ exec.unread > 0
    /\ exec' = [exec EXCEPT !.unread = @ - 1, !.log = @ + 1]
    /\ FollowFrame

\* GetLogs returns at the end of the stream and logsDone is closed
FollowerDone ==
    /\ exec.pc # "none" /\ exec.follower = "following"
    /\ exec.unread = 0 /\ exec.closed
    /\ exec' = [exec EXCEPT !.follower = "done"]
    /\ FollowFrame

\* WaitContainer returns the exit code, or fails
EWait ==
    /\ exec.pc = "wait"
    /\ \/ /\ exec.container = "exited"
          /\ exec' = [exec EXCEPT !.pc = "grace"]
       \/ exec' = [exec EXCEPT !.pc = "returned"]
    /\ FollowFrame

\* mutant: the caller waits for logsDone alone
GraceExpiresNever == FALSE

\* time.After(500 * time.Millisecond) fires
GraceExpires == TRUE

\* the select on logsDone and on the timer
EGrace ==
    /\ exec.pc = "grace"
    /\ exec.follower = "done" \/ GraceExpires
    /\ exec' = [exec EXCEPT !.pc = "diff"]
    /\ FollowFrame

\* DiffContainer and SaveDiff
EDiff ==
    /\ exec.pc = "diff"
    /\ exec' = [exec EXCEPT !.pc = "commit"]
    /\ FollowFrame

\* CommitContainer when the block is not ephemeral and the exit code is 0
ECommit ==
    /\ exec.pc = "commit"
    /\ \E ok \in BOOLEAN :
         exec' = [exec EXCEPT !.pc = "remove",
                              !.committed = ok /\ ~exec.ephemeral /\ exec.exitCode = 0]
    /\ FollowFrame

\* RemoveContainer, return
ERemove ==
    /\ exec.pc = "remove"
    /\ exec' = [exec EXCEPT !.pc = "returned"]
    /\ FollowFrame

\* the steps of the calling thread
Caller == EStart \/ EFollow \/ EWait \/ EGrace \/ EDiff \/ ECommit \/ ERemove

NextFollow ==
    \/ Caller
    \/ ContainerWrites \/ ContainerExits \/ StreamCloses
    \/ FollowerAppends \/ FollowerDone

SpecFollow == InitFollow /\ [][NextFollow]_vars

\* the calling thread takes its next step when it can; the follower and the
\* log stream are not obliged to make progress
SpecFollowFair == SpecFollow /\ WF_vars(Caller)

\* C34: in the container engine, once the container has exited the calling
\* thread waits for the log follower for a bounded grace period at most:
\* executeBlock goes on to diff, commit and return even if the follower never
\* finishes, so a log stream that is never closed cannot block RunBlock.
C34_CallerReturnsAfterExit ==
    (exec.pc = "grace") ~> (exec.pc = "returned")

\* executeBlock has returned while the follower is still reading a stream
\* that was not closed
C34_Witness ==
    /\ exec.pc = "returned" /\ exec.container = "exited"
    /\ exec.follower = "following" /\ ~exec.closed

----------------------------------------------------------------------------
(* Image tags *)

\* block ids, as sequences of characters
TagIds ==
    { <<"a">>, <<"A">>, <<"a", " ", "b">>, <<"a", "-", "b">>, <<"a", " ", "-", "b">>,
      <<"_", "a">>, <<" ">> }

\* strings.ToLower
ToLower(c) == IF c = "A" THEN "a" ELSE IF c = "B" THEN "b" ELSE c

\* the characters of [a-z0-9._-] that occur in TagIds
TagChars == {"a", "b", ".", "_", "-"}

\* [^a-z0-9._-] is replaced by a hyphen
ReplaceInvalid(id) ==
    [i \in DOMAIN id |-> IF ToLower(id[i]) \in TagChars THEN ToLower(id[i]) ELSE "-"]

\* -+ is replaced by one hyphen
RECURSIVE Collapse(_)
Collapse(t) ==
    IF Len(t) < 2 THEN t
    ELSE IF t[1] = "-" /\ t[2] = "-" THEN Collapse(Tail(t))
    ELSE <<t[1]>> \o Collapse(Tail(t))

\* strings.Trim(sanitized, "-")
RECURSIVE TrimHyphens(_)
TrimHyphens(t) ==
    IF t = <<>> THEN t
    ELSE IF t[1] = "-" THEN TrimHyphens(Tail(t))
    ELSE IF t[Len(t)] = "-" THEN TrimHyphens(SubSeq(t, 1, Len(t) - 1))
    ELSE t

sanitizeForDockerTag(blockID) ==
    LET t == TrimHyphens(Collapse(ReplaceInvalid(blockID))) IN
    IF t = <<>> THEN <<"block">>
    ELSE IF t[1] \notin {"a", "b"} THEN <<"block", "-">> \o t
    ELSE t

\* dockstep-<sanitized id>-<time.Now().Unix()>
Tag(blockID, time) == <<"dockstep", sanitizeForDockerTag(blockID), time>>

InitTags == InitWith("build", Pair("RUN 1", FALSE), PairProjects, 0)

TagFrame ==
    /\ UNCHANGED <<impl, projects, project, state, cache, history, extDigest,
                   budget, hashInput, rebuilt, last>>
    /\ UNCHANGED pureVars
    /\ UNCHANGED concVars
    /\ UNCHANGED storeVars
    /\ UNCHANGED execVars
    /\ UNCHANGED serverVars

\* a second passes
Tick ==
    /\ now < MaxClock
    /\ now' = now + 1
    /\ UNCHANGED tags
    /\ TagFrame

\* buildBlock generates the tag of a build
BuildTag ==
    /\ Len(tags) < MaxBuilds
    /\ \E id \in TagIds :
         tags' = Append(tags, [id |-> id, tag |-> Tag(id, now)])
    /\ UNCHANGED now
    /\ TagFrame

NextTags == Tick \/ BuildTag

SpecTags == InitTags /\ [][NextTags]_vars

\* C35: the image tags generated for two distinct builds are distinct, for
\* two builds of one block and for builds of two blocks whose ids sanitize to
\* the same string, also when both builds start within the same second.
C35_TagsAreDistinct ==
    \A i, j \in DOMAIN tags : i # j => tags[i].tag # tags[j].tag

----------------------------------------------------------------------------
(* The run gate of the UI server *)

\* mutant: the gate is taken without looking at isBusy
setBusyAlways(busy, b) == [ok |-> TRUE, busy |-> b]

\* setBusy(b), under busyMu: the answer and the new value of isBusy
setBusy(busy, b) ==
    IF b
    THEN IF busy THEN [ok |-> FALSE, busy |-> busy] ELSE [ok |-> TRUE, busy |-> TRUE]
    ELSE [ok |-> TRUE, busy |-> FALSE]

InitGate == InitWith("build", Pair("RUN 1", FALSE), PairProjects, 0)

GateFrame ==
    /\ UNCHANGED <<impl, projects, project, state, cache, history, extDigest,
                   budget, hashInput, rebuilt, last>>
    /\ UNCHANGED pureVars
    /\ UNCHANGED concVars
    /\ UNCHANGED storeVars
    /\ UNCHANGED execVars
    /\ UNCHANGED tagVars
    /\ UNCHANGED <<response, cfgFile>>

Handle(r, h) == handlers' = [handlers EXCEPT ![r] = h]

\* a POST /api/run or POST /api/up arrives, its body well-formed or not
HReceive(r) ==
    /\ handlers[r].pc = "none"
    /\ \E kind \in {"run", "up"}, body \in {"ok", "bad"} :
         Handle(r, [NoHandler EXCEPT !.pc = "gate", !.kind = kind, !.body = body])
    /\ UNCHANGED isBusy
    /\ GateFrame

\* if !s.setBusy(true) { 409 }
HGate(r) ==
    /\ handlers[r].pc = "gate"
    /\ LET g == setBusy(isBusy, TRUE) IN
         /\ isBusy' = g.busy
         /\ IF g.ok
            THEN Handle(r, [handlers[r] EXCEPT !.pc = "decode"])
            ELSE Handle(r, [handlers[r] EXCEPT !.pc = "done", !.code = 409])
    /\ GateFrame

\* handleRun: a rejected body releases the gate and answers 400, else the
\* engine is invoked; handleUp: decode errors are ignored, the goroutine that
\* runs RunUp is started and 202 is answered
HDecode(r) ==
    /\ handlers[r].pc = "decode"
    /\ IF handlers[r].kind = "run" /\ handlers[r].body = "bad"
       THEN /\ isBusy' = setBusy(isBusy, FALSE).busy
            /\ Handle(r, [handlers[r] EXCEPT !.pc = "done", !.code = 400])
       ELSE /\ UNCHANGED isBusy
            /\ Handle(r, [handlers[r] EXCEPT
                            !.pc = "engine", !.ran = TRUE,
                            !.code = IF handlers[r].kind = "up" THEN 202 ELSE 0])
    /\ GateFrame

\* RunBlock / RunUp returns, with or without an error: defer s.setBusy(false)
HEngineReturns(r) ==
    /\ handlers[r].pc = "engine"
    /\ isBusy' = setBusy(isBusy, FALSE).busy
    /\ \E code \in {200, 500} :
         Handle(r, [handlers[r] EXCEPT
                      !.pc = "done",
                      !.code = IF handlers[r].kind = "up" THEN 202 ELSE code])
    /\ GateFrame

\* the request is over
HForget(r) ==
    /\ handlers[r].pc = "done"
    /\ Handle(r, NoHandler)
    /\ UNCHANGED isBusy
    /\ GateFrame

NextGate ==
    \E r \in Reqs :
        HReceive(r) \/ HGate(r) \/ HDecode(r) \/ HEngineReturns(r) \/ HForget(r)

SpecGate == InitGate /\ [][NextGate]_vars

\* the requests that hold the gate
Holders == { r \in Reqs : handlers[r].pc \in {"decode", "engine"} }

\* C36: the run gate of the UI server admits at most one run at a time:
\* between a successful setBusy(true) and the matching setBusy(false) every
\* other POST /api/run or /api/up is answered 409 without invoking the engine,
\* and the gate is released on every path that acquired it (run finished, run
\* failed, body rejected), so it is never busy after the run it guarded ended.
C36_GateAdmitsOneRun ==
    /\ Cardinality(Holders) <= 1
    /\ isBusy <=> Holders # {}
    /\ \A r \in Reqs : handlers[r].code = 409 => ~handlers[r].ran
    /\ \A r \in Reqs : handlers[r].ran => handlers[r].code # 409

\* one request is in the engine, one was turned away with 409, and one had
\* taken the gate and released it when its body was rejected
C36_Witness ==
    /\ \E r \in Reqs : handlers[r].pc = "engine"
    /\ \E r \in Reqs : handlers[r].code = 409
    /\ \E r \in Reqs : handlers[r].code = 400

----------------------------------------------------------------------------
(* Crashes between store writes *)

\* the store after the first k events of the trace tr of a request that
\* started in the world w: the writes made before the process died
RECURSIVE StoreAfter(_, _, _, _)
StoreAfter(w, tr, i, k) ==
    IF i > k THEN w
    ELSE LET e == tr[i] IN
         StoreAfter(IF e.ev = "save"
                    THEN SaveBlockState(w, e.id, BlockState(e.status, e.digest, e.hash, e.arg))
                    ELSE IF e.ev = "history"
                    THEN SaveImageHistory(w, e.id, e.digest, e.arg)
                    ELSE IF e.ev = "cacheset"
                    THEN SetCachedDigest(w, e.id, e.hash, e.digest)
                    ELSE w,
                    tr, i + 1, k)

\* the (hash, digest) pairs of the success states among the first k events
SuccessPairs(tr, k) ==
    { [hash |-> tr[i].hash, digest |-> tr[i].digest] :
        i \in { j \in 1..k : tr[j].ev = "save" /\ tr[j].status = "success" } }

InitCrash == InitWith("build", Pair("RUN 1", FALSE), PairProjects, MaxCrashSteps)

\* dockstep run <id> [--force]; the process may die after any of its steps
CrashRunRequest ==
    /\ budget > 0
    /\ \E id \in BlockIds, force \in BOOLEAN :
         \E r \in RunBlock(Here, id, force) :
           \E k \in 0..Len(r.w.trace) :
             LET w == StoreAfter(Here, r.w.trace, 1, k) IN
             /\ state' = w.state
             /\ cache' = w.cache
             /\ history' = w.history
             /\ persisted' = persisted \cup SuccessPairs(r.w.trace, k)
             /\ last' = [NoRequest EXCEPT
                            !.op = IF k = Len(r.w.trace) THEN "RunBlock" ELSE "crash",
                            !.id = id, !.force = force]
    /\ budget' = budget - 1
    /\ UNCHANGED <<impl, projects, project, extDigest, hashInput, rebuilt>>
    /\ UNCHANGED pureVars
    /\ UNCHANGED concVars
    /\ UNCHANGED <<images, latest, successLogs, captured>>
    /\ UNCHANGED execVars
    /\ UNCHANGED serverVars
    /\ UNCHANGED tagVars

SpecCrash == InitCrash /\ [][CrashRunRequest]_vars

\* the digests of the ImageRecords of block b
HistoryDigests(b) == { history[b][i].Digest : i \in DOMAIN history[b] }

\* C37: the persistence steps of a successful build are ordered so that in
\* every reachable state, the states left by a crash between any two store
\* writes included, each cache entry h -> d was written after a BlockState
\* with status success, hash h and digest d had been persisted and after an
\* ImageRecord with digest d had been appended: a cache entry never refers to
\* a digest that no BlockState and no history record has recorded.
C37_CacheEntryWrittenLast ==
    \A h \in DOMAIN cache :
        /\ [hash |-> h, digest |-> cache[h]] \in persisted
        /\ \E b \in BlockIds : cache[h] \in HistoryDigests(b)

\* a crash left a success state and its ImageRecord without the cache entry,
\* next to the cache entry of an earlier build
C37_Witness ==
    /\ last.op = "crash"
    /\ cache # <<>>
    /\ \E b \in BlockIds :
          /\ state[b].Status = "success"
          /\ state[b].Hash \notin DOMAIN cache
          /\ state[b].Digest \in HistoryDigests(b)

\* C38: when two RunBlock invocations for different blocks finish with
\* success at overlapping times, both of their cache entries are in the Cache
\* Index afterwards: the read-modify-write of the index file by one run never
\* drops or overwrites the entry written by the other.
C38_ConcurrentSetsKeepBothEntries ==
    ( /\ procs["p1"].id # procs["p2"].id
      /\ \A p \in Procs : procs[p].pc = "done" /\ procs[p].final.Status = "success" )
    => \A p \in Procs :
          /\ procs[p].hash \in DOMAIN cache
          /\ cache[procs[p].hash] = procs[p].digest

\* the definition of block p was changed after the digest in p's BlockState
\* was built, and the request began with that digest
OutdatedBefore(p) ==
    /\ last.preState[p].Digest # ""
    /\ last.preInput[p].block # NoBlock
    /\ last.preInput[p].block # FindBlock(p)

----------------------------------------------------------------------------
(* The block editor of the UI server *)

\* a field a JSON body does not carry, and a field it carries
Absent == <<>>

Given(v) == <<v>>

\* the bodies of POST /api/block
PostBodies ==
    [id : {"", "A", "B"}, from : {"", "img"}, from_block : {"", "A", "B"}]

\* the bodies of PUT /api/block
PutBodies ==
    [id : {"", "A", "B"},
     instructions : {Absent, Given(<<>>), Given(<<"RUN 2">>)},
     cmd : {Absent, Given(""), Given("RUN 1")},
     from : {Absent, Given(""), Given("img")},
     from_block : {Absent, Given(""), Given("A"), Given("B")},
     from_block_version : {Absent, Given("d1")}]

\* Engine.GetProject hands out the engine's own *types.Project: what a
\* handler assigns through it is assigned to the project of the engine
GetProject == project

\* the answer to a request, with the project the engine held when it arrived
Answer(method, code, reason) ==
    response' = [code |-> code, method |-> method, reason |-> reason, pre |-> project]

\* "Re-validate and persist": config.Validate of the project as the handler
\* left it, then config.Write, which can fail
ValidateThenWrite(method, okCode, wrote) ==
    \E err \in Validate(Project("1.0", "test", project')) :
        IF err # ""
        THEN /\ UNCHANGED cfgFile
             /\ Answer(method, 400, "validation")
        ELSE IF wrote
        THEN /\ cfgFile' = project'
             /\ Answer(method, okCode, "")
        ELSE /\ UNCHANGED cfgFile
             /\ Answer(method, 500, "write")

\* the position of the first block with the id, 0 if there is none
RECURSIVE BlockIndex(_, _, _)
BlockIndex(blocks, id, i) ==
    IF i > Len(blocks) THEN 0
    ELSE IF blocks[i].ID = id THEN i
    ELSE BlockIndex(blocks, id, i + 1)

\* append(blocks[:i], blocks[i+1:]...)
RemoveAt(blocks, i) ==
    [k \in 1..(Len(blocks) - 1) |-> IF k < i THEN blocks[k] ELSE blocks[k + 1]]

\* the field assignments of the PUT handler on proj.Blocks[i]
UpdateFields(b, body) ==
    LET b1 == IF body.instructions # Absent
              THEN [b EXCEPT !.Instructions = body.instructions[1]] ELSE b
        b2 == IF body.cmd # Absent /\ body.cmd # Given("")
              THEN [b1 EXCEPT !.Instructions = <<body.cmd[1]>>] ELSE b1
        b3 == IF body.from # Absent
              THEN [b2 EXCEPT !.From = body.from[1], !.FromBlock = ""] ELSE b2
        b4 == IF body.from_block # Absent
              THEN [b3 EXCEPT !.FromBlock = body.from_block[1],
                              !.From = IF body.from_block[1] # "" THEN "" ELSE @]
              ELSE b3
    IN  IF body.from_block_version # Absent
        THEN [b4 EXCEPT !.FromBlockVersion = body.from_block_version[1]] ELSE b4

InitBlocks == InitWith("build", Pair("RUN 1", FALSE), PairProjects, MaxEditSteps)

\* one request to /api/block, and what it leaves alone
BlocksFrame ==
    /\ budget > 0
    /\ budget' = budget - 1
    /\ UNCHANGED <<impl, projects, state, cache, history, extDigest,
                   hashInput, rebuilt, last>>
    /\ UNCHANGED pureVars
    /\ UNCHANGED concVars
    /\ UNCHANGED storeVars
    /\ UNCHANGED execVars
    /\ UNCHANGED tagVars
    /\ UNCHANGED <<isBusy, handlers>>

\* POST /api/block
PostBlock ==
    /\ \E wellFormed \in BOOLEAN, body \in PostBodies, wrote \in BOOLEAN :
         IF ~wellFormed
         THEN /\ Answer("POST", 400, "invalid json")
              /\ UNCHANGED <<project, cfgFile>>
         ELSE IF body.id = ""
         THEN /\ Answer("POST", 400, "id required")
              /\ UNCHANGED <<project, cfgFile>>
         ELSE IF BlockIndex(GetProject, body.id, 1) # 0
         THEN /\ Answer("POST", 400, "duplicate id")
              /\ UNCHANGED <<project, cfgFile>>
         ELSE /\ project' = Append(GetProject,
                               Block(body.id, body.from, body.from_block, "",
                                     <<"RUN echo 'new block'">>, "", FALSE, ""))
              /\ ValidateThenWrite("POST", 200, wrote)
    /\ BlocksFrame

\* GET /api/block?id=
GetBlock ==
    /\ \E id \in {"", "A", "B"} :
         IF id = "" THEN Answer("GET", 400, "id required")
         ELSE IF BlockIndex(GetProject, id, 1) # 0 THEN Answer("GET", 200, "")
         ELSE Answer("GET", 404, "")
    /\ UNCHANGED <<project, cfgFile>>
    /\ BlocksFrame

\* PUT /api/block
PutBlock ==
    /\ \E wellFormed \in BOOLEAN, body \in PutBodies, wrote \in BOOLEAN :
         IF ~wellFormed
         THEN /\ Answer("PUT", 400, "invalid json")
              /\ UNCHANGED <<project, cfgFile>>
         ELSE IF body.id = ""
         THEN /\ Answer("PUT", 400, "id required")
              /\ UNCHANGED <<project, cfgFile>>
         ELSE LET i == BlockIndex(GetProject, body.id, 1) IN
              IF i = 0
              THEN /\ Answer("PUT", 404, "")
                   /\ UNCHANGED <<project, cfgFile>>
              ELSE /\ project' = [GetProject EXCEPT ![i] = UpdateFields(@, body)]
                   /\ ValidateThenWrite("PUT", 200, wrote)
    /\ BlocksFrame

\* DELETE /api/block?id=
DeleteBlock ==
    /\ \E id \in {"", "A", "B"}, wrote \in BOOLEAN :
         IF id = ""
         THEN /\ Answer("DELETE", 400, "id required")
              /\ UNCHANGED <<project, cfgFile>>
         ELSE LET i == BlockIndex(GetProject, id, 1) IN
              IF i = 0
              THEN /\ Answer("DELETE", 404, "")
                   /\ UNCHANGED <<project, cfgFile>>
              ELSE /\ project' = RemoveAt(GetProject, i)
                   /\ ValidateThenWrite("DELETE", 204, wrote)
    /\ BlocksFrame

NextBlocks == PostBlock \/ GetBlock \/ PutBlock \/ DeleteBlock

SpecBlocks == InitBlocks /\ [][NextBlocks]_vars

\* C39: a block create, update or delete request that validation rejects
\* (HTTP 400) leaves the engine's in-memory project exactly as it was before
\* the request.
C39_RejectedRequestLeavesProject ==
    (response.code = 400 /\ response.reason = "validation")
        => project = response.pre

====
